---------------------------- MODULE Spec2Model ----------------------------
(***************************************************************************)
(* Model of the document post-processing core of doc_processing:           *)
(*   - the chunker       (enhanced/formatters.py, create_chunks)           *)
(*   - the aggregator    (core/optimized_docling_converter.py,             *)
(*                        extract_document_metadata and classify)          *)
(*   - the serializers   (enhanced/formatters.py, _export_to_html and      *)
(*                        _export_to_markdown)                             *)
(*   - the table converters (enhanced/formatters.py,                       *)
(*                        _convert_table_to_html, _convert_table_to_markdown) *)
(*   - interleaved aggregator runs, a repeated create_chunks call, two      *)
(*     concurrent create_enhanced_rag_document calls, get_document_structure, *)
(*     EnhancedDocumentProcessor.create_rag_document_from_file and          *)
(*     HybridDocumentProcessor.process_document                             *)
(* Each component has its own specification (SpecChunk, SpecAgg, SpecFmt,  *)
(* SpecTable, SpecPar, SpecRechunk, SpecTime, SpecStruct, SpecProc,        *)
(* SpecHybrid); the variables of the other components stay at their idle    *)
(* values.                                                                 *)
(***************************************************************************)
EXTENDS Integers, Sequences, FiniteSets, TLC

VARIABLES
    \* ---- chunker (create_chunks) ----
    formatter,       \* "html" | "markdown": which formatter's create_chunks runs
    content,         \* html_content / md_content: the markup text, a sequence of characters
    chunk_size,      \* the chunk_size argument
    parts,           \* html_parts / md_parts: content.split('\n\n')
    idx,             \* position of the "for part in parts" loop (1-based)
    chunks,          \* the chunk list being built
    current_chunk,   \* the running buffer (list of strings)
    current_length,  \* the running buffer's accounted length
    words,           \* part.split() of the element being word-split
    widx,            \* position of the "for word in words" loop (1-based)
    temp_chunk,      \* the word buffer
    temp_length,     \* the word buffer's accounted length
    pc,              \* position of the chunker: "start", "part", "word", "done", "idle"
    \* ---- aggregator (extract_document_metadata) ----
    doc_pages,       \* document.pages: the pages, in order
    doc_items,       \* document.iterate_items(): the items, in reading order
    md_export,       \* what document.export_to_markdown() does: it raises, or returns text
    metadata,        \* the metadata record being built
    page_index,      \* the per-page buckets, keyed by page number
    item_count,      \* raw items seen so far
    apos,            \* position of the "for item, level in ..." loop (1-based)
    apc,             \* position of the aggregator: "init", "walk", "done", "idle"
    \* ---- serializers (_export_to_html, _export_to_markdown) ----
    ser,             \* "html" | "markdown": which serializer runs
    s_items,         \* document.iterate_items(document.body, with_groups=True)
    spos,            \* position of the "for ix, (item, level) in ..." loop (1-based)
    html_parts,      \* _export_to_html: the rendered parts
    list_element,    \* _export_to_html: the open list element, or NoList
    md_parts,        \* _export_to_markdown: the rendered parts
    list_stack,      \* _export_to_markdown: the stack of list kinds
    spc,             \* position of the serializer: "walk", "done", "raised", "idle"
    \* ---- table converters (_convert_table_to_html, _convert_table_to_markdown) ----
    grid,            \* item.data.table_cells: the cells of the table, in list order
    table_html,      \* what _convert_table_to_html returned
    table_md,        \* what _convert_table_to_markdown returned
    converted,       \* the converters that have returned
    tpc,             \* position of the table converters: "convert", "idle"
    \* ---- interleaved aggregation runs (extract_document_metadata, one call per run) ----
    docs,            \* the document each run is given
    runs             \* the locals of each run: metadata, page_index, item_count, pos, pc

chunkVars == <<formatter, content, chunk_size, parts, idx, chunks, current_chunk,
               current_length, words, widx, temp_chunk, temp_length, pc>>

aggVars == <<doc_pages, doc_items, md_export, metadata, page_index, item_count, apos, apc>>

serVars == <<ser, s_items, spos, html_parts, list_element, md_parts, list_stack, spc>>

tabVars == <<grid, table_html, table_md, converted, tpc>>

parVars == <<docs, runs>>

VARIABLES
    \* ---- a second create_chunks call on the same input ----
    calls,           \* the number of the create_chunks call in progress (0: not counted)
    first_chunks     \* what the first call returned

rechunkVars == <<calls, first_chunks>>

\* create_chunks is not called twice
RechunkIdle ==
    /\ calls = 0
    /\ first_chunks = <<>>

VARIABLES
    \* ---- one converter instance serving two create_enhanced_rag_document calls ----
    last_processing_time,   \* self._last_processing_time of the shared instance
    enh                     \* per call: position, own conversion time, time reported

timeVars == <<last_processing_time, enh>>

\* no create_enhanced_rag_document call is made
TimeIdle ==
    /\ last_processing_time = 0
    /\ enh = <<>>

VARIABLES
    \* ---- get_document_structure ----
    str_format,      \* the serializer asked: "html" or "markdown"
    str_pages,       \* document.pages
    str_items,       \* what document.iterate_items() yields
    structure,       \* the structure dict being built
    str_page,        \* the number of pages handled so far
    strpc            \* "page", "done" or "raised"

structVars == <<str_format, str_pages, str_items, structure, str_page, strpc>>

\* get_document_structure is not called
StructIdle ==
    /\ str_format = "html"
    /\ str_pages = <<>>
    /\ str_items = <<>>
    /\ structure = <<>>
    /\ str_page = 0
    /\ strpc = "idle"

VARIABLES
    \* ---- EnhancedDocumentProcessor.create_rag_document_from_file ----
    proc_format,     \* self.output_format
    proc_file,       \* the file at file_path: whether it exists, and its extension
    proc_id,         \* the document_id argument: "" stands for None
    proc_errors,     \* the steps that raised so far, in order
    proc_result,     \* what the call returned
    procpc           \* the position of the call

procVars == <<proc_format, proc_file, proc_id, proc_errors, proc_result, procpc>>

\* create_rag_document_from_file is not called
ProcIdle ==
    /\ proc_format = "html"
    /\ proc_file = <<>>
    /\ proc_id = ""
    /\ proc_errors = <<>>
    /\ proc_result = <<>>
    /\ procpc = "idle"

VARIABLES
    \* ---- HybridDocumentProcessor.process_document ----
    fast_processor,      \* whether self.fast_processor was created
    docling_processors,  \* the modes whose converter was created
    requested,           \* the mode argument
    mode,                \* the local variable mode
    attempts,            \* the processors tried so far and what each did
    hy_error,            \* the exception caught, if any
    hy_result,           \* what the call returned
    hypc                 \* the position of the call

hybridVars == <<fast_processor, docling_processors, requested, mode, attempts,
                hy_error, hy_result, hypc>>

\* process_document is not called
HybridIdle ==
    /\ fast_processor = FALSE
    /\ docling_processors = {}
    /\ requested = ""
    /\ mode = ""
    /\ attempts = <<>>
    /\ hy_error = ""
    /\ hy_result = <<>>
    /\ hypc = "idle"

vars == <<chunkVars, aggVars, serVars, tabVars, parVars,
          rechunkVars, timeVars, structVars, procVars, hybridVars>>

\* list_element = None
NoList == [tag |-> "none", attrib |-> <<>>, children |-> <<>>]

\* no serializer is running
SerIdle ==
    /\ ser = "html"
    /\ s_items = <<>>
    /\ spos = 0
    /\ html_parts = <<>>
    /\ list_element = NoList
    /\ md_parts = <<>>
    /\ list_stack = <<>>
    /\ spc = "idle"

\* no table converter is running
TabIdle ==
    /\ grid = <<>>
    /\ table_html = <<>>
    /\ table_md = <<>>
    /\ converted = {}
    /\ tpc = "idle"

\* no interleaved aggregation runs
ParIdle ==
    /\ docs = <<>>
    /\ runs = <<>>

\* the aggregator is not running
AggIdle ==
    /\ doc_pages = <<>>
    /\ doc_items = <<>>
    /\ md_export = [raises |-> TRUE, text |-> <<>>]
    /\ metadata = <<>>
    /\ page_index = <<>>
    /\ item_count = 0
    /\ apos = 0
    /\ apc = "idle"

\* the chunker is not running
ChunkIdle ==
    /\ formatter = "html"
    /\ content = <<>>
    /\ chunk_size = 0
    /\ parts = <<>>
    /\ idx = 0
    /\ chunks = <<>>
    /\ current_chunk = <<>>
    /\ current_length = 0
    /\ words = <<>>
    /\ widx = 0
    /\ temp_chunk = <<>>
    /\ temp_length = 0
    /\ pc = "idle"

\* what a step of one component leaves alone: the other components' variables
notChunk == <<aggVars, serVars, tabVars, parVars, rechunkVars,
              timeVars, structVars, procVars, hybridVars>>
notAgg == <<chunkVars, serVars, tabVars, parVars, rechunkVars,
            timeVars, structVars, procVars, hybridVars>>
notSer == <<chunkVars, aggVars, tabVars, parVars, rechunkVars,
            timeVars, structVars, procVars, hybridVars>>
notTab == <<chunkVars, aggVars, serVars, parVars, rechunkVars,
            timeVars, structVars, procVars, hybridVars>>
notPar == <<chunkVars, aggVars, serVars, tabVars, rechunkVars,
            timeVars, structVars, procVars, hybridVars>>
notRechunk == <<aggVars, serVars, tabVars, parVars,
                timeVars, structVars, procVars, hybridVars>>
notTime == <<chunkVars, aggVars, serVars, tabVars, parVars,
             rechunkVars, structVars, procVars, hybridVars>>
notStruct == <<chunkVars, aggVars, serVars, tabVars, parVars,
               rechunkVars, timeVars, procVars, hybridVars>>
notProc == <<chunkVars, aggVars, serVars, tabVars, parVars,
             rechunkVars, timeVars, structVars, hybridVars>>
notHybrid == <<chunkVars, aggVars, serVars, tabVars, parVars,
               rechunkVars, timeVars, structVars, procVars>>

-----------------------------------------------------------------------------
(* Bounds of the model *)

\* longest markup text enumerated
MaxLen == 7
\* largest chunk_size enumerated
MaxChunk == 4
\* longest item stream enumerated item by item
MaxItems == 2
\* pages of a document
NumPages == 2
\* longest item stream given to a serializer
MaxStream == 4
\* most cells of an enumerated table grid
MaxCells == 3

-----------------------------------------------------------------------------
(* Characters and strings. A string is a sequence of characters. *)

SP == " "
NL == "\n"
\* the characters str.split() treats as whitespace, among those of the model
Whitespace == {SP, NL}
\* the characters markup texts are drawn from
Alphabet == {"a", SP, NL}

RECURSIVE StringsUpTo(_)
StringsUpTo(n) ==
    IF n = 0 THEN {<<>>}
    ELSE LET shorter == StringsUpTo(n - 1)
         IN  shorter \cup {Append(s, c) : s \in {t \in shorter : Len(t) = n - 1}, c \in Alphabet}

\* the element separator of both serializers: "\n\n".join(parts)
ElementSep == <<NL, NL>>
\* the separator the word-splitting puts between words: ' '.join(temp_chunk)
WordSep == <<SP>>

RECURSIVE Join(_, _)
\* sep.join(strs)
Join(strs, sep) ==
    IF strs = <<>> THEN <<>>
    ELSE IF Len(strs) = 1 THEN strs[1]
    ELSE strs[1] \o sep \o Join(Tail(strs), sep)

RECURSIVE SplitFrom(_, _, _)
\* s.split('\n\n') from position i on, cur being the piece read so far:
\* leftmost non-overlapping occurrences of the separator, empty pieces kept
SplitFrom(s, i, cur) ==
    IF i > Len(s) THEN <<cur>>
    ELSE IF i < Len(s) /\ s[i] = NL /\ s[i + 1] = NL
         THEN <<cur>> \o SplitFrom(s, i + 2, <<>>)
         ELSE SplitFrom(s, i + 1, Append(cur, s[i]))

\* content.split('\n\n')
SplitElements(s) == SplitFrom(s, 1, <<>>)

RECURSIVE WordsFrom(_, _, _)
\* part.split() from position i on: runs of whitespace separate the words,
\* leading and trailing whitespace is dropped, no empty word is produced
WordsFrom(s, i, cur) ==
    IF i > Len(s) THEN (IF cur = <<>> THEN <<>> ELSE <<cur>>)
    ELSE IF s[i] \in Whitespace
         THEN (IF cur = <<>> THEN <<>> ELSE <<cur>>) \o WordsFrom(s, i + 1, <<>>)
         ELSE WordsFrom(s, i + 1, Append(cur, s[i]))

\* part.split()
SplitWords(s) == WordsFrom(s, 1, <<>>)

-----------------------------------------------------------------------------
(* The chunker: HTMLFormatter.create_chunks and MarkdownFormatter.create_chunks *)

Formatters == {"html", "markdown"}

MimeType(f) == IF f = "html" THEN "text/html" ELSE "text/plain"
GroupType(f) == IF f = "html" THEN "html_element_group" ELSE "markdown_section"
PartialType(f) == IF f = "html" THEN "html_partial" ELSE "markdown_partial"

\* a variant of GroupChunk that keeps only the first entry of the buffer
GroupChunkFirstOnly(f, buffer) ==
    [content |-> buffer[1],
     mime_type |-> MimeType(f),
     chunk_type |-> GroupType(f),
     element_count |-> Len(buffer),
     content_length |-> Len(buffer[1])]

\* the chunk made of the running buffer
GroupChunk(f, buffer) ==
    LET chunk_content == Join(buffer, ElementSep)
    IN  [content |-> chunk_content,
         mime_type |-> MimeType(f),
         chunk_type |-> GroupType(f),
         element_count |-> Len(buffer),
         content_length |-> Len(chunk_content)]

\* the chunk made of the word buffer
PartialChunk(f, buffer) ==
    LET chunk_content == Join(buffer, WordSep)
    IN  [content |-> chunk_content,
         mime_type |-> MimeType(f),
         chunk_type |-> PartialType(f),
         is_partial |-> TRUE,
         content_length |-> Len(chunk_content)]

\* a variant of NeedFlush that never flushes the buffer before an element
NeedFlushNever(cur_len, part_length, size, buffer) == FALSE

\* "if current_length + part_length > chunk_size and current_chunk"
NeedFlush(cur_len, part_length, size, buffer) ==
    cur_len + part_length > size /\ buffer # <<>>

\* a variant of TooLarge that also word-splits an element of exactly chunk_size
TooLargeInclusive(part_length, size) == part_length >= size

\* "if part_length > chunk_size"
TooLarge(part_length, size) == part_length > size

\* a variant of NeedWordFlush without the "and temp_chunk" test
NeedWordFlushAlways(tmp_len, word_length, size, buffer) ==
    tmp_len + word_length + 1 > size

\* "if temp_length + len(word) + 1 > chunk_size and temp_chunk"
NeedWordFlush(tmp_len, word_length, size, buffer) ==
    tmp_len + word_length + 1 > size /\ buffer # <<>>

\* a variant of WithRemainder that emits nothing of the last word group
WithoutRemainder(buffer, remainder) == buffer

\* "current_chunk.append(chunk_content)" for the last word group
WithRemainder(buffer, remainder) == Append(buffer, remainder)

\* the accounted length a whole element adds to the buffer: "part_length + 2"
ElementCost(part_length) == part_length + 2

\* the accounted length the last word group adds to the buffer: "len(chunk_content)"
RemainderCost(remainder_length) == remainder_length

\* the chunk sizes a caller may pass; nothing in create_chunks restricts them
ChunkSizes == (-1) .. MaxChunk

ChunkInit ==
    /\ formatter \in Formatters
    /\ \/ /\ content \in StringsUpTo(MaxLen)
          /\ chunk_size \in ChunkSizes
       \/ \* a short element, then a 15-character element that is a single word
          /\ content = <<"a", "a", "a", "a", NL, NL>> \o [i \in 1 .. 15 |-> "b"]
          /\ chunk_size = 10
    /\ parts = <<>>
    /\ idx = 0
    /\ chunks = <<>>
    /\ current_chunk = <<>>
    /\ current_length = 0
    /\ words = <<>>
    /\ widx = 0
    /\ temp_chunk = <<>>
    /\ temp_length = 0
    /\ pc = "start"
    /\ AggIdle
    /\ SerIdle
    /\ TabIdle
    /\ ParIdle
    /\ RechunkIdle
    /\ TimeIdle
    /\ StructIdle
    /\ ProcIdle
    /\ HybridIdle

\* content = self.format(...); parts = content.split('\n\n'); the empty accumulators
SplitContent ==
    /\ pc = "start"
    /\ UNCHANGED notChunk
    /\ parts' = SplitElements(content)
    /\ idx' = 1
    /\ pc' = "part"
    /\ UNCHANGED <<formatter, content, chunk_size, chunks, current_chunk, current_length,
                   words, widx, temp_chunk, temp_length>>

\* one iteration of "for part in parts" up to the choice between word-splitting
\* and buffering: the flush of the buffer, then either the start of the word loop
\* or the append of the whole element
ProcessPart ==
    /\ pc = "part"
    /\ UNCHANGED notChunk
    /\ idx <= Len(parts)
    /\ LET part == parts[idx]
           part_length == Len(part)
           flush == NeedFlush(current_length, part_length, chunk_size, current_chunk)
           chunks1 == IF flush THEN Append(chunks, GroupChunk(formatter, current_chunk))
                      ELSE chunks
           buffer1 == IF flush THEN <<>> ELSE current_chunk
           length1 == IF flush THEN 0 ELSE current_length
       IN  /\ chunks' = chunks1
           /\ IF TooLarge(part_length, chunk_size)
              THEN /\ words' = SplitWords(part)
                   /\ widx' = 1
                   /\ temp_chunk' = <<>>
                   /\ temp_length' = 0
                   /\ current_chunk' = buffer1
                   /\ current_length' = length1
                   /\ pc' = "word"
                   /\ idx' = idx
              ELSE /\ current_chunk' = Append(buffer1, part)
                   /\ current_length' = length1 + ElementCost(part_length)
                   /\ idx' = idx + 1
                   /\ UNCHANGED <<words, widx, temp_chunk, temp_length, pc>>
    /\ UNCHANGED <<formatter, content, chunk_size, parts>>

\* one iteration of "for word in words"
ProcessWord ==
    /\ pc = "word"
    /\ UNCHANGED notChunk
    /\ widx <= Len(words)
    /\ LET word == words[widx]
           flush == NeedWordFlush(temp_length, Len(word), chunk_size, temp_chunk)
       IN  /\ chunks' = IF flush THEN Append(chunks, PartialChunk(formatter, temp_chunk))
                        ELSE chunks
           /\ temp_chunk' = Append(IF flush THEN <<>> ELSE temp_chunk, word)
           /\ temp_length' = (IF flush THEN 0 ELSE temp_length) + Len(word) + 1
    /\ widx' = widx + 1
    /\ UNCHANGED <<formatter, content, chunk_size, parts, idx, current_chunk,
                   current_length, words, pc>>

\* after the word loop: "if temp_chunk:" the last word group joins the running buffer
MergeRemainder ==
    /\ pc = "word"
    /\ UNCHANGED notChunk
    /\ widx > Len(words)
    /\ IF temp_chunk # <<>>
       THEN LET chunk_content == Join(temp_chunk, WordSep)
            IN  /\ current_chunk' = WithRemainder(current_chunk, chunk_content)
                /\ current_length' = current_length + RemainderCost(Len(chunk_content))
       ELSE UNCHANGED <<current_chunk, current_length>>
    /\ idx' = idx + 1
    /\ pc' = "part"
    /\ UNCHANGED <<formatter, content, chunk_size, parts, chunks, words, widx,
                   temp_chunk, temp_length>>

\* after the part loop: "if current_chunk:" the last chunk, then "return chunks"
FinalFlush ==
    /\ pc = "part"
    /\ UNCHANGED notChunk
    /\ idx > Len(parts)
    /\ chunks' = IF current_chunk # <<>>
                 THEN Append(chunks, GroupChunk(formatter, current_chunk))
                 ELSE chunks
    /\ pc' = "done"
    /\ UNCHANGED <<formatter, content, chunk_size, parts, idx, current_chunk,
                   current_length, words, widx, temp_chunk, temp_length>>

ChunkNext == SplitContent \/ ProcessPart \/ ProcessWord \/ MergeRemainder \/ FinalFlush

SpecChunk == ChunkInit /\ [][ChunkNext]_vars

-----------------------------------------------------------------------------
(* Properties of the chunker *)

\* whether string c occurs in string t at position pos
OccursAt(t, pos, c) ==
    /\ pos + Len(c) - 1 <= Len(t)
    /\ \A j \in 1 .. Len(c) : t[pos + j - 1] = c[j]

RECURSIVE ReassemblesFrom(_, _, _, _)
\* whether t, from position pos on, is the contents of cs[k], cs[k+1], ... in
\* order with a non-empty run of separator (whitespace) characters between
\* consecutive contents and nothing else
ReassemblesFrom(t, pos, cs, k) ==
    /\ OccursAt(t, pos, cs[k].content)
    /\ LET after == pos + Len(cs[k].content)
       IN  IF k = Len(cs) THEN after = Len(t) + 1
           ELSE \E gap \in 1 .. (Len(t) - after + 1) :
                    /\ \A j \in after .. (after + gap - 1) : t[j] \in Whitespace
                    /\ ReassemblesFrom(t, after + gap, cs, k + 1)

\* the chunk contents, joined in order with separators, give back the markup text
RoundTrip ==
    IF chunks = <<>> THEN content = <<>> ELSE ReassemblesFrom(content, 1, chunks, 1)

\* C1: for every markup text and every chunk_size >= 1, joining the contents of
\* the returned chunks in order, with the separators reinserted, reproduces the
\* markup text exactly.
C1_RoundTrip ==
    (pc = "done" /\ chunk_size >= 1) => RoundTrip

\* the whitespace-delimited words of the markup text are all at most size long
NoLongWord(size) ==
    \A w \in 1 .. Len(SplitWords(content)) : Len(SplitWords(content)[w]) <= size

\* C2: for every markup text and chunk_size >= 1 with no word longer than
\* chunk_size, every returned chunk has len(content) <= chunk_size.
C2_ChunksBounded ==
    (pc = "done" /\ chunk_size >= 1 /\ NoLongWord(chunk_size))
        => \A k \in 1 .. Len(chunks) : Len(chunks[k].content) <= chunk_size

\* C3: create_chunks called with chunk_size <= 0 is rejected: it never returns
\* a chunk list.
C3_NonPositiveRejected ==
    chunk_size <= 0 => pc # "done"

\* the markup text of the scenario: "aaaa", a blank line, fifteen "b"
ScenarioDText == <<"a", "a", "a", "a", NL, NL>> \o [i \in 1 .. 15 |-> "b"]

ScenarioDDone == pc = "done" /\ content = ScenarioDText /\ chunk_size = 10

\* the partial chunks among the returned chunks
PartialChunks == {k \in 1 .. Len(chunks) : chunks[k].chunk_type = PartialType(formatter)}

AfterExactElement ==
    /\ pc = "part"
    /\ idx > 1
    /\ chunk_size >= 1
    /\ Len(parts[idx - 1]) = chunk_size

\* C5: an element whose length is exactly chunk_size is emitted whole as the only
\* element of its chunk (element_count = 1, not partial), whatever precedes or
\* follows it: once handled it is alone in the buffer, and the next step of the
\* loop emits exactly that buffer as one element-group chunk.
C5_ExactElementAlone ==
    [][AfterExactElement =>
         /\ current_chunk = <<parts[idx - 1]>>
         /\ Len(chunks') = Len(chunks) + 1
         /\ SubSeq(chunks', 1, Len(chunks)) = chunks
         /\ LET c == chunks'[Len(chunks')]
            IN  /\ c.content = parts[idx - 1]
                /\ c.chunk_type = GroupType(formatter)
                /\ c.element_count = 1
                /\ "is_partial" \notin DOMAIN c]_vars

C5_Witness ==
    /\ pc = "done"
    /\ chunk_size >= 1
    /\ \E i \in 2 .. (Len(parts) - 1) :
          /\ Len(parts[i]) = chunk_size
          /\ parts[i - 1] # <<>>
          /\ parts[i + 1] # <<>>
          /\ \E k \in 2 .. Len(chunks) :
                /\ chunks[k].content = parts[i]
                /\ chunks[k].element_count = 1

-----------------------------------------------------------------------------
(* The documents the aggregator reads. An item is a record                 *)
(*   [cls, label, prov, image] (and data, for a table): its class, its     *)
(* label, its provenance list, whether it has an image reference, and its  *)
(* table data.                                                             *)

\* Python's None where a page number is expected (page numbers start at 1)
NoPage == 0
\* Python's None elsewhere
None == "None"

\* the bounding box of the model's items on page p
BoxOn(p) == [l |-> 1, t |-> p + 1, r |-> 2, b |-> p]

\* a provenance entry: a ProvenanceItem, a dict, or a bare page number
ProvItem(p) == [kind |-> "ProvenanceItem", page_no |-> p, bbox |-> BoxOn(p)]
ProvDict(p) == [kind |-> "dict", page_no |-> p, bbox |-> BoxOn(p)]
ProvInt(p) == [kind |-> "int", page_no |-> p]

\* a table cell and the grid of the model's tables
Cell(r, c, t) ==
    [start_row_offset_idx |-> r, end_row_offset_idx |-> r + 1,
     start_col_offset_idx |-> c, end_col_offset_idx |-> c + 1, text |-> t]
TableData == [num_rows |-> 1, num_cols |-> 2,
              table_cells |-> <<Cell(0, 0, "A"), Cell(0, 1, "B")>>]

\* only a table has the data attribute, and the tables of the model have a grid
Item(cls, label, prov) ==
    LET common == [cls |-> cls, label |-> label, prov |-> prov, image |-> cls = "PictureItem"]
    IN  IF cls = "TableItem" THEN ("data" :> TableData) @@ common ELSE common

\* a bare placeholder of a degraded item stream: an int
Placeholder == [cls |-> "int"]

\* the classes that are TextItem or derive from it in the conversion engine
TextItemClasses == {"TextItem", "TitleItem", "SectionHeaderItem", "ListItem"}

\* isinstance(item, base) for the four classes classify tests
IsInstance(item, base) ==
    CASE base = "TableItem" -> item.cls = "TableItem"
      [] base = "PictureItem" -> item.cls = "PictureItem"
      [] base = "TextItem" -> item.cls \in TextItemClasses
      [] base = "ListItem" -> item.cls = "ListItem"
      [] base = "int" -> item.cls = "int"

\* the words classify looks for in type(item).__name__, and which of them each
\* class name of the model contains
NameWords(cls) ==
    CASE cls = "TableItem" -> {"Table"}
      [] cls = "PictureItem" -> {"Picture"}
      [] cls = "TextItem" -> {"Text"}
      [] cls = "TitleItem" -> {"Title"}
      [] cls = "SectionHeaderItem" -> {"Header"}
      [] cls = "PageHeader" -> {"Header"}
      [] cls = "RichTextBlock" -> {"Text"}
      [] cls = "TableOfContents" -> {"Table"}
      [] cls = "HeaderTable" -> {"Header", "Table"}
      [] cls = "ImageRef" -> {"Image"}
      [] OTHER -> {}

\* the item shapes item streams are drawn from
ItemShapes ==
    { Placeholder,
      Item("TableItem", "table", <<ProvItem(1)>>),
      Item("TableItem", "title", <<>>),
      Item("PictureItem", "picture", <<ProvItem(2)>>),
      Item("PictureItem", "section_header", <<ProvDict(1)>>),
      Item("TitleItem", "title", <<ProvItem(1)>>),
      Item("SectionHeaderItem", "section_header", <<ProvItem(2), ProvItem(1)>>),
      Item("TextItem", "paragraph", <<ProvItem(1)>>),
      Item("TextItem", "text", <<>>),
      Item("TextItem", "caption", <<ProvInt(2)>>),
      Item("ListItem", "list_item", <<ProvItem(1)>>),
      Item("KeyValueItem", "key_value_region", <<ProvItem(1)>>),
      Item("PageHeader", None, <<ProvItem(1)>>),
      Item("RichTextBlock", None, <<>>),
      Item("TableOfContents", None, <<ProvDict(2)>>),
      Item("HeaderTable", None, <<ProvItem(2)>>),
      Item("ImageRef", None, <<ProvItem(1)>>) }

\* the item streams of at most n items
ItemStreams(n) == UNION {[1 .. k -> ItemShapes] : k \in 0 .. n}

\* n copies of x
Repeat(x, n) == [i \in 1 .. n |-> x]

\* the page objects of a document: PageItem objects, dicts, or bare page numbers
PageKinds == {"PageItem", "dict", "int"}
PageSize == [width |-> 10, height |-> 20]
Pages(kind) ==
    [i \in 1 .. NumPages |->
        IF kind = "int" THEN [kind |-> kind]
        ELSE [kind |-> kind, page_no |-> i, size |-> PageSize]]

\* item.text of the i-th item: the texts of a document are taken distinct
TextOf(i) == i

-----------------------------------------------------------------------------
(* The aggregator: OptimizedDoclingConverter.extract_document_metadata *)

\* the thresholds of the degraded-mode test
DegradedMaxElements == 10
DegradedMinItems == 100

\* a variant of Classify that looks at the label before the type
ClassifyLabelFirst(item, lbl) ==
    IF lbl \in {"title", "section_header"} THEN "heading"
    ELSE IF IsInstance(item, "TableItem") THEN "table"
    ELSE IF IsInstance(item, "PictureItem") THEN "picture"
    ELSE "text"

\* a variant of Classify that gives a fifth category to the classes it does not know
ClassifyWithOther(item, lbl) ==
    IF IsInstance(item, "TableItem") THEN "table"
    ELSE IF IsInstance(item, "PictureItem") THEN "picture"
    ELSE IF IsInstance(item, "TextItem") THEN
        IF lbl \in {"title", "section_header"} THEN "heading" ELSE "text"
    ELSE IF IsInstance(item, "ListItem") THEN "text"
    ELSE "other"

\* classify(item, lbl)
Classify(item, lbl) ==
    IF IsInstance(item, "TableItem") THEN "table"
    ELSE IF IsInstance(item, "PictureItem") THEN "picture"
    ELSE IF IsInstance(item, "TextItem") THEN
        IF lbl = "title" THEN "heading"
        ELSE IF lbl = "section_header" THEN "heading"
        ELSE IF lbl \in {"paragraph", "text"} THEN "text"
        ELSE "text"
    ELSE IF IsInstance(item, "ListItem") THEN "text"
    ELSE LET item_type == NameWords(item.cls)
         IN  IF IsInstance(item, "int") THEN "unknown_int"
             ELSE IF "Header" \in item_type \/ "Title" \in item_type THEN "heading"
             ELSE IF "Text" \in item_type \/ "Paragraph" \in item_type THEN "text"
             ELSE IF "Table" \in item_type THEN "table"
             ELSE IF "Picture" \in item_type \/ "Image" \in item_type THEN "picture"
             ELSE "text"

\* a variant of ProvPage that puts an item without provenance on the first page
ProvPageOrFirst(prov_list) ==
    IF prov_list = <<>> THEN 1 ELSE prov_list[1].page_no

\* a variant of ProvPage that takes the last provenance entry
ProvPageLast(prov_list) ==
    IF prov_list = <<>> THEN NoPage ELSE prov_list[Len(prov_list)].page_no

\* the page number of the first provenance entry, or None
ProvPage(prov_list) ==
    IF prov_list = <<>> THEN NoPage ELSE prov_list[1].page_no

\* whether the first provenance entry carries a bounding box
ProvHasBox(prov_list) ==
    prov_list # <<>> /\ prov_list[1].kind # "int"

\* the page number a bucket is made for: p.page_no, p.get("page_no", page_idx + 1)
\* or page_idx + 1 (page_idx is 0-based in the code, i is 1-based here)
BucketPage(p, i) ==
    IF p.kind = "int" THEN i ELSE p.page_no

\* the empty bucket of a page
Bucket(p, i) ==
    [page_number |-> BucketPage(p, i),
     elements |-> <<>>,
     tables |-> <<>>,
     images |-> <<>>,
     text_blocks |-> <<>>,
     page_size |-> IF p.kind = "int" THEN None ELSE p.size]

\* a variant of BoxId that leaves the running count out
BoxIdNoCount(etype, page_no, n_boxes) == <<etype, page_no, 0>>

\* f"{etype}_{page_no}_{len(metadata['bounding_boxes'])}"
BoxId(etype, page_no, n_boxes) == <<etype, page_no, n_boxes>>

\* the element descriptor of item number i; table_content has one entry per cell of
\* table_cells, and iterating a cell yields its (field, value) pairs, none of which
\* has a text attribute
Descriptor(item, i, etype, n_boxes) ==
    LET prov_list == item.prov
        page_no == ProvPage(prov_list)
        base == [type |-> etype,
                 label |-> item.label,
                 text |-> TextOf(i),
                 page |-> page_no]
        with_box == IF ProvHasBox(prov_list)
                    THEN ("bbox" :> prov_list[1].bbox) @@ base
                    ELSE base
        with_table == IF etype = "table" /\ "data" \in DOMAIN item
                      THEN ("table_metadata" :>
                                [rows |-> item.data.num_rows, columns |-> item.data.num_cols])
                           @@ (IF item.data.table_cells # <<>>
                               THEN "table_content" :>
                                        [r \in 1 .. Len(item.data.table_cells) |->
                                            [c \in 1 .. Cardinality(DOMAIN item.data.table_cells[r])
                                                |-> ""]]
                               ELSE <<>>)
                           @@ with_box
                      ELSE with_box
    IN  IF etype = "picture"
        THEN ("image_metadata" :> [has_image_ref |-> item.image]) @@ with_table
        ELSE with_table

\* a variant of Incremented that forgets the count so far
IncrementedFromZero(counts, key) ==
    IF key \in DOMAIN counts THEN [counts EXCEPT ![key] = 1]
    ELSE (key :> 1) @@ counts

\* dict.get(key, 0) + 1 stored back under key
Incremented(counts, key) ==
    IF key \in DOMAIN counts THEN [counts EXCEPT ![key] = @ + 1]
    ELSE (key :> 1) @@ counts

RECURSIVE SumValues(_)
\* sum(counts.values())
SumValues(counts) ==
    IF DOMAIN counts = {} THEN 0
    ELSE LET k == CHOOSE x \in DOMAIN counts : TRUE
         IN  counts[k] + SumValues([x \in DOMAIN counts \ {k} |-> counts[x]])

RECURSIVE SortedSeq(_)
\* sorted(keys)
SortedSeq(keys) ==
    IF keys = {} THEN <<>>
    ELSE LET least == CHOOSE x \in keys : \A y \in keys : x <= y
         IN  <<least>> \o SortedSeq(keys \ {least})

\* a variant of IsDegraded that counts exactly DegradedMinItems raw items as degraded
IsDegradedInclusive(total_elements, raw_items) ==
    total_elements < DegradedMaxElements /\ raw_items >= DegradedMinItems

\* "if metadata['summary']['total_elements'] < 10 and item_count > 100"
IsDegraded(total_elements, raw_items) ==
    total_elements < DegradedMaxElements /\ raw_items > DegradedMinItems

RECURSIVE LinesFrom(_, _, _)
\* s.split('\n') from position i on, empty lines kept
LinesFrom(s, i, cur) ==
    IF i > Len(s) THEN <<cur>>
    ELSE IF s[i] = NL THEN <<cur>> \o LinesFrom(s, i + 1, <<>>)
    ELSE LinesFrom(s, i + 1, Append(cur, s[i]))

\* md_content.split('\n')
SplitLines(s) == LinesFrom(s, 1, <<>>)

\* l.strip() is not empty
HasText(l) == \E j \in 1 .. Len(l) : l[j] \notin Whitespace

\* l.startswith('#')
IsHeadingLine(l) == l # <<>> /\ l[1] = "#"

\* the markdown renderings export_to_markdown() returns in the model
MarkdownSamples ==
    { <<>>,
      <<"#", SP, "a", NL, "a", SP, "|", SP, "a", NL, SP, NL, "#", "#", SP, "a", NL, "a">> }

\* what export_to_markdown() may do: raise, or return one of the renderings
ExportRaises == [raises |-> TRUE, text |-> <<>>]
ExportOutcomes ==
    {ExportRaises} \cup {[raises |-> FALSE, text |-> t] : t \in MarkdownSamples}

\* the statistics estimated from the markdown rendering
Estimates(md_content) ==
    LET lines == SplitLines(md_content)
    IN  [estimated_text_blocks |->
             Cardinality({j \in 1 .. Len(lines) : HasText(lines[j]) /\ ~IsHeadingLine(lines[j])}),
         estimated_headings |->
             Cardinality({j \in 1 .. Len(lines) : IsHeadingLine(lines[j])}),
         estimated_tables |->
             Cardinality({j \in 1 .. Len(md_content) : md_content[j] = "|"})]

\* the item streams long enough for the degraded-mode test: k classified items
\* followed by bare placeholders, n items in all
LongStreams ==
    { Repeat(Item("TextItem", "paragraph", <<ProvItem(1)>>), k) \o Repeat(Placeholder, n - k) :
        k \in {0, DegradedMaxElements - 1, DegradedMaxElements},
        n \in {DegradedMinItems, DegradedMinItems + 1, 150} }

AggInit ==
    /\ \E kind \in PageKinds : doc_pages = Pages(kind)
    /\ \/ /\ doc_items \in ItemStreams(MaxItems)
          /\ md_export = ExportRaises
       \/ /\ doc_items \in LongStreams
          /\ md_export \in ExportOutcomes
    /\ metadata = <<>>
    /\ page_index = <<>>
    /\ item_count = 0
    /\ apos = 0
    /\ apc = "init"
    /\ ChunkIdle
    /\ SerIdle
    /\ TabIdle
    /\ ParIdle
    /\ RechunkIdle
    /\ TimeIdle
    /\ StructIdle
    /\ ProcIdle
    /\ HybridIdle

\* the metadata record before the walk
EmptyMetadata(pages) ==
    [page_count |-> Len(pages),
     elements_by_type |-> <<>>,
     tables |-> <<>>,
     images |-> <<>>,
     text_blocks |-> <<>>,
     headings |-> <<>>,
     bounding_boxes |-> <<>>,
     document_structure |-> <<>>]

\* the per-page buckets made from document.pages: a later page with the same
\* page number replaces the earlier one
EmptyBuckets(pages) ==
    [pn \in {BucketPage(pages[i], i) : i \in 1 .. Len(pages)} |->
        LET i == CHOOSE j \in 1 .. Len(pages) :
                     /\ BucketPage(pages[j], j) = pn
                     /\ \A k \in (j + 1) .. Len(pages) : BucketPage(pages[k], k) # pn
        IN  Bucket(pages[i], i)]

\* a variant of BoxesBefore that counts the boxes of every run in progress, as a
\* process-wide counter would
BoxesBeforeShared(md) ==
    Cardinality(DOMAIN md.bounding_boxes)
    + Cardinality(UNION {{<<r, id>> : id \in DOMAIN runs[r].metadata.bounding_boxes} :
                           r \in {x \in DOMAIN runs : runs[x].pc # "init"}})
    - (IF \E r \in DOMAIN runs : runs[r].pc # "init" /\ runs[r].metadata = md
       THEN Cardinality(DOMAIN md.bounding_boxes) ELSE 0)

\* the number of boxes registered so far: len(metadata['bounding_boxes'])
BoxesBefore(md) == Cardinality(DOMAIN md.bounding_boxes)

\* the descriptor the loop body builds for the item at position pos
WalkedDescriptor(md, item, pos) ==
    Descriptor(item, pos, Classify(item, item.label), BoxesBefore(md))

\* the metadata record after the loop body has run on an item that is not a bare int
WalkedMetadata(md, item, pos) ==
    LET etype == Classify(item, item.label)
        n_boxes == BoxesBefore(md)
        ed == WalkedDescriptor(md, item, pos)
        bbox_id == BoxId(etype, ed.page, n_boxes)
        boxes == IF "bbox" \in DOMAIN ed
                 THEN IF bbox_id \in DOMAIN md.bounding_boxes
                      THEN [md.bounding_boxes EXCEPT ![bbox_id] = ed.bbox]
                      ELSE (bbox_id :> ed.bbox) @@ md.bounding_boxes
                 ELSE md.bounding_boxes
    IN  [md EXCEPT
           !.bounding_boxes = boxes,
           !.elements_by_type = Incremented(@, etype),
           !.tables = IF etype = "table" THEN Append(@, ed) ELSE @,
           !.images = IF etype = "picture" THEN Append(@, ed) ELSE @,
           !.headings = IF etype = "heading" THEN Append(@, ed) ELSE @,
           !.text_blocks = IF etype = "text" THEN Append(@, ed) ELSE @]

\* the per-page buckets after the loop body has run on an item that is not a bare int
WalkedBuckets(buckets, md, item, pos) ==
    LET etype == Classify(item, item.label)
        ed == WalkedDescriptor(md, item, pos)
        pn == ed.page
    IN  IF pn \in DOMAIN buckets
        THEN [buckets EXCEPT
                ![pn].elements = Append(@, ed),
                ![pn].tables = IF etype = "table" THEN Append(@, ed) ELSE @,
                ![pn].images = IF etype = "picture" THEN Append(@, ed) ELSE @,
                ![pn].text_blocks = IF etype = "text" THEN Append(@, ed) ELSE @]
        ELSE buckets

\* the record returned: document_structure, summary and the degraded-mode fallback
ReturnedMetadata(md, buckets, count, export) ==
    LET pages_sorted == SortedSeq(DOMAIN buckets \ {NoPage})
        summary == [total_elements |-> SumValues(md.elements_by_type),
                    table_count |-> Len(md.tables),
                    image_count |-> Len(md.images),
                    heading_count |-> Len(md.headings),
                    text_block_count |-> Len(md.text_blocks),
                    raw_item_count |-> count]
        noted == IF ~IsDegraded(summary.total_elements, count) THEN summary
                 ELSE IF export.raises
                 THEN ("mode_note" :> <<"Degraded mode detected", count,
                                        "no usable structure">>) @@ summary
                 ELSE ("mode_note" :> <<"Degraded mode detected", count,
                                        "using markdown fallback">>)
                      @@ Estimates(export.text) @@ summary
    IN  ("summary" :> noted)
        @@ [md EXCEPT !.document_structure =
               [j \in 1 .. Len(pages_sorted) |-> buckets[pages_sorted[j]]]]

\* the empty metadata record and the per-page buckets made from document.pages
StartWalk ==
    /\ apc = "init"
    /\ UNCHANGED notAgg
    /\ metadata' = EmptyMetadata(doc_pages)
    /\ page_index' = EmptyBuckets(doc_pages)
    /\ item_count' = 0
    /\ apos' = 1
    /\ apc' = "walk"
    /\ UNCHANGED <<doc_pages, doc_items, md_export>>

\* one iteration of "for item, level in document.iterate_items()"
WalkItem ==
    /\ apc = "walk"
    /\ UNCHANGED notAgg
    /\ apos <= Len(doc_items)
    /\ item_count' = item_count + 1
    /\ apos' = apos + 1
    /\ LET item == doc_items[apos]
       IN  IF IsInstance(item, "int")
           THEN UNCHANGED <<metadata, page_index>>
           ELSE /\ metadata' = WalkedMetadata(metadata, item, apos)
                /\ page_index' = WalkedBuckets(page_index, metadata, item, apos)
    /\ apc' = "walk"
    /\ UNCHANGED <<doc_pages, doc_items, md_export>>

\* after the loop: document_structure, summary, the degraded-mode fallback, return
FinishWalk ==
    /\ apc = "walk"
    /\ UNCHANGED notAgg
    /\ apos > Len(doc_items)
    /\ metadata' = ReturnedMetadata(metadata, page_index, item_count, md_export)
    /\ apc' = "done"
    /\ UNCHANGED <<doc_pages, doc_items, md_export, page_index, item_count, apos>>

AggNext == StartWalk \/ WalkItem \/ FinishWalk

SpecAgg == AggInit /\ [][AggNext]_vars

-----------------------------------------------------------------------------
(* Properties of the aggregator *)

Categories == {"table", "picture", "heading", "text"}

\* the items of the stream that are not bare placeholders, among the first n
Structural(n) == {i \in 1 .. n : ~IsInstance(doc_items[i], "int")}

\* C6: after extract_document_metadata, sum(elements_by_type.values()) ==
\* summary.total_elements == summary.raw_item_count minus the number of skipped
\* bare placeholder items.
C6_ExactAccounting ==
    apc = "done" =>
        /\ SumValues(metadata.elements_by_type) = metadata.summary.total_elements
        /\ metadata.summary.total_elements =
               metadata.summary.raw_item_count
               - Cardinality({i \in 1 .. Len(doc_items) : IsInstance(doc_items[i], "int")})
        /\ metadata.summary.raw_item_count = Len(doc_items)

C6_Witness ==
    /\ apc = "done"
    /\ metadata.summary.total_elements >= 2
    /\ metadata.summary.raw_item_count > metadata.summary.total_elements
    /\ \E c \in DOMAIN metadata.elements_by_type : metadata.elements_by_type[c] >= 2

\* the places <<j, k>> of document_structure where the descriptor of item i is
BucketPlaces(i) ==
    {jk \in UNION {{<<j, k>> : k \in 1 .. Len(metadata.document_structure[j].elements)} :
                     j \in 1 .. Len(metadata.document_structure)} :
        metadata.document_structure[jk[1]].elements[jk[2]].text = TextOf(i)}

\* C7: after extract_document_metadata, every item that has provenance appears in
\* the elements list of exactly one per-page bucket of document_structure, and that
\* bucket's page_number is the page number of the item's first provenance entry.
C7_OneBucketPerItem ==
    apc = "done" =>
        \A i \in Structural(Len(doc_items)) :
            doc_items[i].prov # <<>> =>
                /\ Cardinality(BucketPlaces(i)) = 1
                /\ \A jk \in BucketPlaces(i) :
                       metadata.document_structure[jk[1]].page_number
                           = doc_items[i].prov[1].page_no

C7_Witness ==
    /\ apc = "done"
    /\ \E i \in Structural(Len(doc_items)) :
          /\ Len(doc_items[i].prov) = 2
          /\ doc_items[i].prov[1].page_no # doc_items[i].prov[2].page_no
          /\ BucketPlaces(i) # {}
    /\ \E i \in Structural(Len(doc_items)) : Len(doc_items[i].prov) = 1

\* the returned record holds a non-empty mode_note
HasModeNote ==
    /\ "mode_note" \in DOMAIN metadata.summary
    /\ metadata.summary.mode_note # <<>>

\* C8: extract_document_metadata never fails on a degraded item stream (every
\* step of the walk can be taken until it returns), and the returned record holds
\* a non-empty mode_note exactly when fewer than 10 elements were classified and
\* more than 100 raw items were seen, whether or not the plain-text rendering
\* succeeds.
C8_ModeNoteWhenDegraded ==
    /\ apc \in {"init", "walk"} => ENABLED AggNext
    /\ apc = "done" =>
          (HasModeNote <=> (/\ metadata.summary.total_elements < 10
                            /\ metadata.summary.raw_item_count > 100))

\* 150 bare placeholders, the plain-text rendering failing
C8_Witness ==
    /\ apc = "done"
    /\ Len(doc_items) = 150
    /\ Structural(150) = {}
    /\ md_export.raises
    /\ HasModeNote

\* the typed lists of the record in which the descriptor of item i is
ListsHolding(i) ==
    {lst \in {"tables", "images", "headings", "text_blocks"} :
        \E k \in 1 .. Len(metadata[lst]) : metadata[lst][k].text = TextOf(i)}

\* the typed list of each category
ListOf(c) ==
    CASE c = "table" -> "tables"
      [] c = "picture" -> "images"
      [] c = "heading" -> "headings"
      [] c = "text" -> "text_blocks"

-----------------------------------------------------------------------------
(* The serializers: HTMLFormatter._export_to_html and                      *)
(* MarkdownFormatter._export_to_markdown. A rendered part is a record that  *)
(* holds what the formatted string holds.                                   *)

\* the labels exported by default (DEFAULT_EXPORT_LABELS), among those of the model
DefaultExportLabels ==
    {"title", "section_header", "paragraph", "table", "picture", "text", "list_item", "code"}

\* an item of the stream: the item and the nesting level iterate_items yields with it
StreamItem(cls, label, level, prov, caption) ==
    ("level" :> level) @@ ("caption" :> caption) @@ Item(cls, label, prov)

\* a group marker: it has a label, and neither text nor provenance
GroupMarker(label, level) == [cls |-> "GroupItem", label |-> label, level |-> level]

\* the item shapes the serializers' streams are drawn from
StreamShapes ==
    { GroupMarker("list", 1),
      GroupMarker("ordered_list", 1),
      GroupMarker("unspecified", 1),
      StreamItem("ListItem", "list_item", 2, <<ProvItem(1)>>, ""),
      StreamItem("TextItem", "paragraph", 1, <<ProvItem(1)>>, ""),
      StreamItem("SectionHeaderItem", "section_header", 1, <<>>, ""),
      StreamItem("SectionHeaderItem", "section_header", 6, <<ProvItem(2)>>, ""),
      StreamItem("TableItem", "table", 1, <<ProvItem(2)>>, "cap"),
      StreamItem("PictureItem", "picture", 1, <<ProvItem(1)>>, ""),
      [StreamItem("PictureItem", "picture", 1, <<>>, "cap") EXCEPT !.image = FALSE] }

\* the streams of at most n items
Streams(n) == UNION {[1 .. k -> StreamShapes] : k \in 0 .. n}

IsGroup(item) == item.cls = "GroupItem"

\* isinstance(item, GroupItem) and item.label in [GroupLabel.LIST, GroupLabel.ORDERED_LIST]
IsListGroup(item) == IsGroup(item) /\ item.label \in {"list", "ordered_list"}

\* isinstance(item, ListItem) and item.label in [DocItemLabel.LIST_ITEM]
IsListEntry(item) == item.cls = "ListItem" /\ item.label = "list_item"

\* hasattr(item, 'prov') and item.prov
HasProv(item) == "prov" \in DOMAIN item /\ item.prov # <<>>

\* the height of the page a provenance entry is on
PageHeight(prov) == PageSize.height

\* _prov_to_attr_dict: the box with a top-left origin, and the 0-based page index
ProvAttrs(prov) ==
    [bbox |-> <<prov.bbox.l, PageHeight(prov) - prov.bbox.t,
                prov.bbox.r, PageHeight(prov) - prov.bbox.b>>,
     page_index |-> prov.page_no - 1]

\* _html_element(tag, class_name, attrs, content)
HtmlElement(tag, class_name, attrs, body) ==
    [tag |-> tag, className |-> class_name, attrs |-> attrs, content |-> body]

\* a variant of SortedByColumn that keeps the cells in list order
InListOrder(cells) == cells

RECURSIVE SortedByColumn(_)
\* sorted(cells, key=lambda c: c.start_col_offset_idx): a stable sort
SortedByColumn(cells) ==
    IF cells = <<>> THEN <<>>
    ELSE LET first == CHOOSE j \in 1 .. Len(cells) :
                         /\ \A k \in 1 .. Len(cells) :
                                cells[j].start_col_offset_idx <= cells[k].start_col_offset_idx
                         /\ \A k \in 1 .. (j - 1) :
                                cells[k].start_col_offset_idx # cells[j].start_col_offset_idx
         IN  <<cells[first]>>
             \o SortedByColumn(SubSeq(cells, 1, first - 1) \o SubSeq(cells, first + 1, Len(cells)))

\* the cells of cells that start on row r, in the order of cells
RECURSIVE CellsOfRow(_, _)
CellsOfRow(cells, r) ==
    IF cells = <<>> THEN <<>>
    ELSE (IF Head(cells).start_row_offset_idx = r THEN <<Head(cells)>> ELSE <<>>)
         \o CellsOfRow(Tail(cells), r)

\* the row indexes cells start on
RowIndexes(cells) == {cells[j].start_row_offset_idx : j \in 1 .. Len(cells)}

\* _convert_table_to_html: one row per row index, the cells by starting column
TableToHtml(item) ==
    LET cells == item.data.table_cells
        row_order == SortedSeq(RowIndexes(cells))
    IN  [n \in 1 .. Len(row_order) |->
            LET row == SortedByColumn(CellsOfRow(cells, row_order[n]))
            IN  [c \in 1 .. Len(row) |->
                    [colspan |-> row[c].end_col_offset_idx - row[c].start_col_offset_idx,
                     rowspan |-> row[c].end_row_offset_idx - row[c].start_row_offset_idx,
                     text |-> row[c].text]]]

\* rows[row_idx].get(col_idx, ""): the text of the last cell starting at (r, c)
CellTextAt(cells, r, c) ==
    LET at == {j \in 1 .. Len(cells) :
                  /\ cells[j].start_row_offset_idx = r
                  /\ cells[j].start_col_offset_idx = c}
    IN  IF at = {} THEN ""
        ELSE cells[CHOOSE j \in at : \A k \in at : k <= j].text

\* the largest of a set of naturals, 0 for the empty set: max_col
MaxOf(ns) == IF ns = {} THEN 0 ELSE CHOOSE x \in ns : \A y \in ns : y <= x

\* _convert_table_to_markdown: one line per row index, max_col + 1 cells per line,
\* the separator line after the row of index 0
TableToMarkdown(item) ==
    LET cells == item.data.table_cells
        row_order == SortedSeq(RowIndexes(cells))
        max_col == MaxOf({cells[j].start_col_offset_idx : j \in 1 .. Len(cells)})
        Line(r) == [cells |-> [c \in 1 .. (max_col + 1) |-> CellTextAt(cells, r, c - 1)]]
        RECURSIVE LinesOf(_)
        LinesOf(n) ==
            IF n > Len(row_order) THEN <<>>
            ELSE <<Line(row_order[n])>>
                 \o (IF row_order[n] = 0 THEN <<[separator |-> max_col + 1]>> ELSE <<>>)
                 \o LinesOf(n + 1)
    IN  LinesOf(1)

\* the marker of a list entry: "- " under an open bullet list, else the ordinal
\* len(md_parts) + 1
ListMarker(stack, n_parts) ==
    IF stack # <<>> /\ stack[Len(stack)] = "list"
    THEN [style |-> "bullet", ordinal |-> 0]
    ELSE [style |-> "number", ordinal |-> n_parts + 1]

\* "  " * (len(list_stack) - 1): a negative count gives the empty string
ListIndent(stack) == IF Len(stack) > 1 THEN Len(stack) - 1 ELSE 0

\* the heading level of a section header: level + 1
HeaderLevel(level) == level + 1

\* f"h{n}"
HeadingTag(n) == <<"h1", "h2", "h3", "h4", "h5", "h6", "h7", "h8", "h9">>[n]

\* a variant of ClosesList that never closes the open list
ClosesListNever(item, open_list) == FALSE

\* "elif item.label not in [DocItemLabel.LIST_ITEM] and list_element is not None"
ClosesList(item, open_list) == item.label # "list_item" /\ open_list # NoList

SerInit ==
    /\ ser \in Formatters
    /\ s_items \in Streams(MaxStream)
    /\ spos = 1
    /\ html_parts = <<>>
    /\ list_element = NoList
    /\ md_parts = <<>>
    /\ list_stack = <<>>
    /\ spc = "walk"
    /\ ChunkIdle
    /\ AggIdle
    /\ TabIdle
    /\ ParIdle
    /\ RechunkIdle
    /\ TimeIdle
    /\ StructIdle
    /\ ProcIdle
    /\ HybridIdle

\* one iteration of the item loop of _export_to_html
HtmlItem ==
    /\ spc = "walk"
    /\ UNCHANGED notSer
    /\ ser = "html"
    /\ spos <= Len(s_items)
    /\ LET item == s_items[spos]
           level == item.level
           closes == ClosesList(item, list_element)
           parts1 == IF closes THEN Append(html_parts, list_element) ELSE html_parts
           list1 == IF closes THEN NoList ELSE list_element
           attrs == IF HasProv(item) THEN ProvAttrs(item.prov[1]) ELSE <<>>
           text == [text |-> TextOf(spos)]
           caption == IF item.caption # ""
                      THEN <<HtmlElement("div", "caption_wrapper", <<>>, [text |-> item.caption])>>
                      ELSE <<>>
       IN  IF IsListGroup(item)
           THEN /\ list_element' = [tag |-> IF item.label = "list" THEN "ul" ELSE "ol",
                                    attrib |-> [className |-> "list_wrapper"],
                                    children |-> <<>>]
                /\ spc' = "walk"
                /\ UNCHANGED html_parts
           ELSE IF ~closes /\ IsGroup(item)
           THEN /\ spc' = "walk"
                /\ UNCHANGED <<html_parts, list_element>>
           ELSE IF IsGroup(item)
           THEN \* a group that is no list closes the open list and renders nothing
                /\ html_parts' = parts1
                /\ list_element' = list1
                /\ spc' = "walk"
           ELSE IF item.cls \in TextItemClasses /\ item.label = "title"
           THEN /\ html_parts' = Append(parts1, HtmlElement("h1", "title_wrapper", attrs, text))
                /\ list_element' = list1
                /\ spc' = "walk"
           ELSE IF item.cls \in TextItemClasses /\ item.label = "section_header"
           THEN /\ html_parts' = Append(parts1,
                                        HtmlElement(HeadingTag(HeaderLevel(level)), "section_wrapper",
                                                    attrs, text))
                /\ list_element' = list1
                /\ spc' = "walk"
           ELSE IF item.cls \in TextItemClasses /\ item.label = "paragraph"
           THEN /\ html_parts' = Append(parts1, HtmlElement("p", "paragraph_wrapper", attrs, text))
                /\ list_element' = list1
                /\ spc' = "walk"
           ELSE IF item.cls \in TextItemClasses /\ item.label = "code"
           THEN /\ html_parts' = Append(parts1, HtmlElement("code", "code_wrapper", attrs, text))
                /\ list_element' = list1
                /\ spc' = "walk"
           ELSE IF IsListEntry(item)
           THEN IF list1 = NoList
                THEN \* ET.SubElement(None, ...) raises
                     /\ spc' = "raised"
                     /\ UNCHANGED <<html_parts, list_element>>
                ELSE /\ list_element' =
                            [list1 EXCEPT !.children =
                                Append(@, [tag |-> "li",
                                           attrib |-> ("className" :> "listitem_wrapper") @@ attrs,
                                           text |-> TextOf(spos)])]
                     /\ html_parts' = parts1
                     /\ spc' = "walk"
           ELSE IF item.cls \in TextItemClasses /\ item.label \in DefaultExportLabels
           THEN /\ html_parts' = Append(parts1, HtmlElement("div", "text_wrapper", attrs, text))
                /\ list_element' = list1
                /\ spc' = "walk"
           ELSE IF item.cls = "TableItem"
           THEN /\ html_parts' = Append(parts1,
                                        HtmlElement("div", "table_wrapper", attrs,
                                                    [table |-> TableToHtml(item)]))
                                 \o caption
                /\ list_element' = list1
                /\ spc' = "walk"
           ELSE IF item.cls = "PictureItem"
           THEN IF ~item.image
                THEN \* item.image is None: item.image.uri raises
                     /\ spc' = "raised"
                     /\ UNCHANGED <<html_parts, list_element>>
                ELSE /\ html_parts' =
                            Append(parts1,
                                   HtmlElement("div", "image_wrapper", attrs,
                                               [element |-> HtmlElement("img", "", [src |-> "uri"],
                                                                        [text |-> None])]))
                            \o caption
                     /\ list_element' = list1
                     /\ spc' = "walk"
           ELSE /\ html_parts' = parts1
                /\ list_element' = list1
                /\ spc' = "walk"
    /\ spos' = spos + 1
    /\ UNCHANGED <<ser, s_items, md_parts, list_stack>>

\* after the loop of _export_to_html: the list still open is emitted; return
HtmlFinish ==
    /\ spc = "walk"
    /\ UNCHANGED notSer
    /\ ser = "html"
    /\ spos > Len(s_items)
    /\ html_parts' = IF list_element # NoList THEN Append(html_parts, list_element)
                     ELSE html_parts
    /\ spc' = "done"
    /\ UNCHANGED <<ser, s_items, spos, list_element, md_parts, list_stack>>

\* one iteration of the item loop of _export_to_markdown
MarkdownItem ==
    /\ spc = "walk"
    /\ UNCHANGED notSer
    /\ ser = "markdown"
    /\ spos <= Len(s_items)
    /\ LET item == s_items[spos]
           level == item.level
           comment == IF HasProv(item)
                      THEN <<[kind |-> "comment",
                              bbox |-> <<item.prov[1].bbox.l, item.prov[1].bbox.b,
                                         item.prov[1].bbox.r, item.prov[1].bbox.t>>,
                              page |-> item.prov[1].page_no - 1]>>
                      ELSE <<>>
       IN  IF IsListGroup(item)
           THEN /\ list_stack' = Append(list_stack, item.label)
                /\ spc' = "walk"
                /\ UNCHANGED md_parts
           ELSE IF IsListEntry(item)
           THEN /\ md_parts' = Append(md_parts,
                                      [kind |-> "list_entry",
                                       indent |-> ListIndent(list_stack),
                                       marker |-> ListMarker(list_stack, Len(md_parts)),
                                       text |-> TextOf(spos)])
                /\ list_stack' = IF Len(list_stack) > 0
                                 THEN SubSeq(list_stack, 1, Len(list_stack) - 1)
                                 ELSE list_stack
                /\ spc' = "walk"
           ELSE IF item.cls \in TextItemClasses
           THEN /\ md_parts' =
                       md_parts \o comment
                       \o <<IF item.label = "title"
                            THEN [kind |-> "heading", level |-> 1, text |-> TextOf(spos)]
                            ELSE IF item.label = "section_header"
                            THEN [kind |-> "heading", level |-> HeaderLevel(level),
                                  text |-> TextOf(spos)]
                            ELSE IF item.label = "paragraph"
                            THEN [kind |-> "paragraph", text |-> TextOf(spos)]
                            ELSE IF item.label = "code"
                            THEN [kind |-> "code", text |-> TextOf(spos)]
                            ELSE [kind |-> "paragraph", text |-> TextOf(spos)]>>
                /\ spc' = "walk"
                /\ UNCHANGED list_stack
           ELSE IF item.cls = "TableItem"
           THEN /\ md_parts' =
                       Append(md_parts, [kind |-> "table", lines |-> TableToMarkdown(item)])
                       \o (IF item.caption # ""
                           THEN <<[kind |-> "caption", caption |-> item.caption]>>
                           ELSE <<>>)
                /\ spc' = "walk"
                /\ UNCHANGED list_stack
           ELSE IF item.cls = "PictureItem"
           THEN IF ~item.image
                THEN \* item.image is None: item.image.uri raises
                     /\ spc' = "raised"
                     /\ UNCHANGED <<md_parts, list_stack>>
                ELSE /\ md_parts' =
                            Append(md_parts,
                                   [kind |-> "image",
                                    alt |-> IF item.caption # "" THEN item.caption
                                            ELSE "Document image",
                                    uri |-> "uri"])
                     /\ spc' = "walk"
                     /\ UNCHANGED list_stack
           ELSE /\ spc' = "walk"
                /\ UNCHANGED <<md_parts, list_stack>>
    /\ spos' = spos + 1
    /\ UNCHANGED <<ser, s_items, html_parts, list_element>>

\* after the loop of _export_to_markdown: return "\n\n".join(md_parts)
MarkdownFinish ==
    /\ spc = "walk"
    /\ UNCHANGED notSer
    /\ ser = "markdown"
    /\ spos > Len(s_items)
    /\ spc' = "done"
    /\ UNCHANGED <<ser, s_items, spos, html_parts, list_element, md_parts, list_stack>>

SerNext == HtmlItem \/ HtmlFinish \/ MarkdownItem \/ MarkdownFinish

SpecFmt == SerInit /\ [][SerNext]_vars

-----------------------------------------------------------------------------
(* Properties of the serializers *)

\* the list Group that governs item i: the nearest list Group before i with only
\* list entries between it and i (0 when there is none)
GoverningGroup(i) ==
    LET gs == {g \in 1 .. (i - 1) :
                  /\ IsListGroup(s_items[g])
                  /\ \A k \in (g + 1) .. (i - 1) : IsListEntry(s_items[k])}
    IN  MaxOf(gs)

\* the list entries of the stream that follow a list Group
GovernedEntries ==
    {i \in 1 .. Len(s_items) : IsListEntry(s_items[i]) /\ GoverningGroup(i) # 0}

\* the lightweight markup renders item i as an entry of a list of the given kind
MarkdownRendersAs(i, kind) ==
    \E n \in 1 .. Len(md_parts) :
        /\ md_parts[n].kind = "list_entry"
        /\ md_parts[n].text = TextOf(i)
        /\ md_parts[n].marker.style = (IF kind = "list" THEN "bullet" ELSE "number")

\* the list containers among the parts of the structured markup
HtmlLists == {n \in 1 .. Len(html_parts) : html_parts[n].tag \in {"ul", "ol"}}

\* the structured markup renders item i as an entry of a list of the given kind
HtmlRendersAs(i, kind) ==
    \E n \in HtmlLists :
        /\ html_parts[n].tag = (IF kind = "list" THEN "ul" ELSE "ol")
        /\ \E c \in 1 .. Len(html_parts[n].children) :
               html_parts[n].children[c].text = TextOf(i)

\* C10: in both serializers, after a Group of kind list or ordered_list every
\* following ListItem up to the next non-list-item item renders as an entry of
\* that list's kind: bulleted for list, numbered for ordered_list.
C10_ListEntriesKeepKind ==
    spc = "done" =>
        \A i \in GovernedEntries :
            IF ser = "markdown"
            THEN MarkdownRendersAs(i, s_items[GoverningGroup(i)].label)
            ELSE HtmlRendersAs(i, s_items[GoverningGroup(i)].label)

\* the lightweight markup alone
C10_MarkdownOnly == ser = "markdown" => C10_ListEntriesKeepKind
\* the structured markup alone
C10_HtmlOnly == ser = "html" => C10_ListEntriesKeepKind

\* the tag of the container of a list of the given kind
ContainerTag(kind) == IF kind = "list" THEN "ul" ELSE "ol"

\* the texts of the entries a container holds, in order
EntryTexts(container) ==
    [c \in 1 .. Len(container.children) |-> container.children[c].text]

\* while a list is open in the structured serializer, its container is of the
\* kind of the governing Group and holds exactly the ListItems met since that Group
OpenListHoldsRun ==
    (ser = "html" /\ spc = "walk" /\ list_element # NoList) =>
        LET g == GoverningGroup(spos)
        IN  /\ g # 0
            /\ list_element.tag = ContainerTag(s_items[g].label)
            /\ EntryTexts(list_element) = [c \in 1 .. (spos - 1 - g) |-> TextOf(g + c)]

\* a step of the structured serializer that returns normally from an item that is
\* neither a ListItem nor a list Group, or from the end of input, while a list is open
LeavesOpenList ==
    /\ ser = "html"
    /\ spc = "walk"
    /\ spc' # "raised"
    /\ list_element # NoList
    /\ \/ spos > Len(s_items)
       \/ /\ spos <= Len(s_items)
          /\ ~IsListEntry(s_items[spos])
          /\ ~IsListGroup(s_items[spos])

\* the open container is the next part of the output, ahead of whatever the step
\* renders, and it is the last part at end of input
EmitsOpenListFirst ==
    /\ Len(html_parts') > Len(html_parts)
    /\ SubSeq(html_parts', 1, Len(html_parts)) = html_parts
    /\ html_parts'[Len(html_parts) + 1] = list_element
    /\ spos > Len(s_items) => Len(html_parts') = Len(html_parts) + 1
    /\ spos <= Len(s_items) => list_element' = NoList

\* C11: in the structured-markup serializer, a list Group followed by ListItems
\* followed by a non-list item renders all those ListItems inside one list
\* container, and that container is emitted before the rendering of the non-list
\* item; a list still open at end of input is emitted last.
C11_ListClosedBeforeNext ==
    []OpenListHoldsRun /\ [][LeavesOpenList => EmitsOpenListFirst]_vars

\* Scenario E: a list Group, two ListItems, a paragraph
C11_Witness ==
    /\ ser = "html"
    /\ spc = "done"
    /\ Len(s_items) = 4
    /\ s_items[1] = GroupMarker("list", 1)
    /\ IsListEntry(s_items[2])
    /\ IsListEntry(s_items[3])
    /\ s_items[4].label = "paragraph"
    /\ Len(html_parts) = 2
    /\ html_parts[1].tag = "ul"
    /\ EntryTexts(html_parts[1]) = <<TextOf(2), TextOf(3)>>
    /\ html_parts[2].tag = "p"

RECURSIVE Flatten(_)
\* the concatenation of a sequence of sequences
Flatten(seqs) == IF seqs = <<>> THEN <<>> ELSE Head(seqs) \o Flatten(Tail(seqs))

\* the classes of the structured elements that hold the text of a text item
TextWrappers ==
    {"title_wrapper", "section_wrapper", "paragraph_wrapper", "code_wrapper", "text_wrapper"}

\* the item texts the structured output holds, in output order
HtmlRenderedTexts ==
    Flatten([n \in 1 .. Len(html_parts) |->
                IF "children" \in DOMAIN html_parts[n] THEN EntryTexts(html_parts[n])
                ELSE IF html_parts[n].className \in TextWrappers
                THEN <<html_parts[n].content.text>>
                ELSE <<>>])

\* the item texts the lightweight output holds, in output order
MarkdownRenderedTexts ==
    Flatten([n \in 1 .. Len(md_parts) |->
                IF md_parts[n].kind \in {"list_entry", "heading", "paragraph", "code"}
                THEN <<md_parts[n].text>>
                ELSE <<>>])

\* the texts of the text items of the stream (ListItems included), in stream order
StreamTexts ==
    Flatten([i \in 1 .. Len(s_items) |->
                IF s_items[i].cls \in TextItemClasses THEN <<TextOf(i)>> ELSE <<>>])

\* C12: the markup output represents the full document in reading order: every
\* text item of the stream, in particular every ListItem, is rendered exactly once
\* and in stream order, also when a list Group is met while another list is open.
C12_EveryItemOnceInOrder ==
    spc = "done" =>
        (IF ser = "html" THEN HtmlRenderedTexts ELSE MarkdownRenderedTexts) = StreamTexts

\* the lightweight serializer alone renders every text item once and in order
C12_MarkdownOnly == ser = "markdown" => C12_EveryItemOnceInOrder

\* C13: for every finite item stream, format() of both serializers returns a
\* string and raises no fault, including for a Picture that has no image reference
\* and for a ListItem that arrives when no list Group is open.
C13_NeverRaises == spc # "raised"

\* the heading levels the two formats have
HeadingDepths == 1 .. 6

\* min(L + 1, maximum heading depth)
ClampedLevel(level) ==
    IF level + 1 \in HeadingDepths THEN level + 1
    ELSE CHOOSE d \in HeadingDepths : \A e \in HeadingDepths : e <= d

\* the section headers of the stream
SectionHeaders ==
    {i \in 1 .. Len(s_items) :
        s_items[i].cls \in TextItemClasses /\ s_items[i].label = "section_header"}

\* C14: in both serializers, a heading with label section-header at nesting level
\* L is rendered with heading level min(L + 1, 6); no heading deeper than the
\* format's maximum (6) is ever emitted.
C14_HeadingLevelClamped ==
    spc = "done" =>
        \A i \in SectionHeaders :
            IF ser = "html"
            THEN \E n \in 1 .. Len(html_parts) :
                    /\ "content" \in DOMAIN html_parts[n]
                    /\ html_parts[n].className = "section_wrapper"
                    /\ html_parts[n].content.text = TextOf(i)
                    /\ html_parts[n].tag = HeadingTag(ClampedLevel(s_items[i].level))
            ELSE \E n \in 1 .. Len(md_parts) :
                    /\ md_parts[n].kind = "heading"
                    /\ md_parts[n].text = TextOf(i)
                    /\ md_parts[n].level = ClampedLevel(s_items[i].level)

\* the positional metadata an item with provenance is to carry: the 0-based page
\* index and the first box with a top-left origin, y replaced by page_height - y
ExpectedMetadata(item) ==
    LET prov == item.prov[1]
    IN  [bbox |-> <<prov.bbox.l, PageSize.height - prov.bbox.t,
                    prov.bbox.r, PageSize.height - prov.bbox.b>>,
         page_index |-> prov.page_no - 1]

\* the items of the stream that carry provenance
Located == {i \in 1 .. Len(s_items) : HasProv(s_items[i])}

\* the positional metadata attached in the structured output, one per element
HtmlMetadata ==
    Flatten([n \in 1 .. Len(html_parts) |->
                IF "children" \in DOMAIN html_parts[n]
                THEN LET lis == html_parts[n].children
                     IN  Flatten([c \in 1 .. Len(lis) |->
                                     IF "bbox" \in DOMAIN lis[c].attrib
                                     THEN <<[bbox |-> lis[c].attrib.bbox,
                                             page_index |-> lis[c].attrib.page_index]>>
                                     ELSE <<>>])
                ELSE IF "bbox" \in DOMAIN html_parts[n].attrs
                THEN <<html_parts[n].attrs>>
                ELSE <<>>])

\* the positional metadata attached in the lightweight output, one per comment
MarkdownMetadata ==
    Flatten([n \in 1 .. Len(md_parts) |->
                IF md_parts[n].kind = "comment"
                THEN <<[bbox |-> md_parts[n].bbox, page_index |-> md_parts[n].page]>>
                ELSE <<>>])

\* how many entries of a sequence equal x
Occurrences(seq, x) == Cardinality({n \in 1 .. Len(seq) : seq[n] = x})

\* C15: in both serializers, every rendered element whose item carries provenance
\* (text, heading, list item, table, picture) gets positional metadata made of the
\* 0-based page index and the item's first bounding box converted to top-left
\* origin with the owning page's height.
C15_PositionalMetadata ==
    spc = "done" =>
        LET attached == IF ser = "html" THEN HtmlMetadata ELSE MarkdownMetadata
        IN  \A i \in Located :
                Occurrences(attached, ExpectedMetadata(s_items[i]))
                    = Cardinality({j \in Located :
                                      ExpectedMetadata(s_items[j]) = ExpectedMetadata(s_items[i])})

\* the structured serializer alone attaches the converted box to every element
\* it renders
C15_HtmlOnly == (ser = "html" /\ C12_EveryItemOnceInOrder) => C15_PositionalMetadata

-----------------------------------------------------------------------------
(* The table converters on their own: _convert_table_to_html and            *)
(* _convert_table_to_markdown applied to the cells of one table.            *)

\* the row and column indexes a cell of the model's grids starts on
GridIndexes == 0 .. 1

\* the row and column indexes a cell of the model's grids ends before
GridEnds == 1 .. 2

\* a table cell that covers rows [r, re) and columns [c, ce)
SpanCell(r, re, c, ce, t) ==
    [start_row_offset_idx |-> r, end_row_offset_idx |-> re,
     start_col_offset_idx |-> c, end_col_offset_idx |-> ce, text |-> t]

\* the text of the model's cell that starts at (r, c)
LetterAt(r, c) == <<<<"A", "B">>, <<"C", "D">>>>[r + 1][c + 1]

\* the cells table grids are drawn from: every start position, with and without
\* spans, and a second cell at (0, 0) with another text
GridCells ==
    {SpanCell(q[1], q[2], q[3], q[4], LetterAt(q[1], q[3])) :
        q \in {x \in GridIndexes \X GridEnds \X GridIndexes \X GridEnds :
                  x[2] > x[1] /\ x[4] > x[3]}}
    \cup {Cell(0, 0, "Z")}

\* the four span-free cells of a 2x2 table
ScenarioBCells == {Cell(r, c, LetterAt(r, c)) : r \in GridIndexes, c \in GridIndexes}

\* the cell lists that hold each cell of cells once, in any order
Orderings(cells) ==
    {f \in [1 .. Cardinality(cells) -> cells] : \A i, j \in DOMAIN f : f[i] = f[j] => i = j}

\* the table item a converter is given
TableOf(cells) == [cls |-> "TableItem", data |-> [table_cells |-> cells]]

TableInit ==
    /\ grid \in (UNION {[1 .. k -> GridCells] : k \in 0 .. MaxCells})
                   \cup Orderings(ScenarioBCells)
    /\ table_html = <<>>
    /\ table_md = <<>>
    /\ converted = {}
    /\ tpc = "convert"
    /\ ChunkIdle
    /\ AggIdle
    /\ SerIdle
    /\ ParIdle
    /\ RechunkIdle
    /\ TimeIdle
    /\ StructIdle
    /\ ProcIdle
    /\ HybridIdle

\* a call of _convert_table_to_html
ConvertTableToHtml ==
    /\ tpc = "convert"
    /\ "html" \notin converted
    /\ table_html' = TableToHtml(TableOf(grid))
    /\ converted' = converted \cup {"html"}
    /\ UNCHANGED <<grid, table_md, tpc>>
    /\ UNCHANGED notTab

\* a call of _convert_table_to_markdown
ConvertTableToMarkdown ==
    /\ tpc = "convert"
    /\ "markdown" \notin converted
    /\ table_md' = TableToMarkdown(TableOf(grid))
    /\ converted' = converted \cup {"markdown"}
    /\ UNCHANGED <<grid, table_html, tpc>>
    /\ UNCHANGED notTab

TableNext == ConvertTableToHtml \/ ConvertTableToMarkdown

SpecTable == TableInit /\ [][TableNext]_vars

-----------------------------------------------------------------------------
(* Properties of the table converters *)

\* the position of row index r among the distinct row indexes of the grid
Rank(r) == Cardinality({x \in RowIndexes(grid) : x < r}) + 1

\* the cells of the grid that start on row r
CellsAtRow(r) == {j \in 1 .. Len(grid) : grid[j].start_row_offset_idx = r}

\* the cells of the grid that start at (r, c)
CellsAt(r, c) == {j \in CellsAtRow(r) : grid[j].start_col_offset_idx = c}

\* what the structured format shows of a cell
HtmlCellOf(cell) ==
    [colspan |-> cell.end_col_offset_idx - cell.start_col_offset_idx,
     rowspan |-> cell.end_row_offset_idx - cell.start_row_offset_idx,
     text |-> cell.text]

\* the structured row of row index r holds the cells that start on r, each once,
\* by increasing column, with their spans
HtmlRowInOrder(r) ==
    LET out == table_html[Rank(r)]
    IN  /\ Len(out) = Cardinality(CellsAtRow(r))
        /\ \E p \in [1 .. Len(out) -> CellsAtRow(r)] :
              /\ \A k, m \in 1 .. Len(out) : p[k] = p[m] => k = m
              /\ \A k \in 1 .. Len(out) : out[k] = HtmlCellOf(grid[p[k]])
              /\ \A k \in 1 .. (Len(out) - 1) :
                     grid[p[k]].start_col_offset_idx <= grid[p[k + 1]].start_col_offset_idx

IsDataLine(line) == "cells" \in DOMAIN line

\* the lines of the lightweight table that are rows, the separator line left out
DataLines == SelectSeq(table_md, IsDataLine)

\* the number of columns of the lightweight table
Width ==
    1 + MaxOf({grid[j].start_col_offset_idx : j \in 1 .. Len(grid)})

\* the lightweight row of row index r shows, column by column, the text of a cell
\* that starts there, and the empty string where no cell starts
MarkdownRowInOrder(r) ==
    LET line == DataLines[Rank(r)].cells
    IN  /\ Len(line) = Width
        /\ \A c \in 1 .. Len(line) :
               IF CellsAt(r, c - 1) = {} THEN line[c] = ""
               ELSE \E j \in CellsAt(r, c - 1) : line[c] = grid[j].text

\* C16: for every table grid, both serializers emit one row per distinct row
\* index in increasing row order with cells in increasing column order; the
\* structured serializer gives each cell colspan = col_end - col_start and
\* rowspan = row_end - row_start, so the span-free cells (0,0,A), (0,1,B), (1,0,C),
\* (1,1,D), given in any order, render as a 2x2 table with rows A|B then C|D.
C16_RowsAndColumnsInOrder ==
    /\ "html" \in converted =>
          /\ Len(table_html) = Cardinality(RowIndexes(grid))
          /\ \A r \in RowIndexes(grid) : HtmlRowInOrder(r)
          /\ grid \in Orderings(ScenarioBCells) =>
                 table_html = <<<<HtmlCellOf(Cell(0, 0, "A")), HtmlCellOf(Cell(0, 1, "B"))>>,
                                <<HtmlCellOf(Cell(1, 0, "C")), HtmlCellOf(Cell(1, 1, "D"))>>>>
    /\ "markdown" \in converted =>
          /\ Len(DataLines) = Cardinality(RowIndexes(grid))
          /\ \A r \in RowIndexes(grid) : MarkdownRowInOrder(r)
          /\ grid \in Orderings(ScenarioBCells) =>
                 table_md = <<[cells |-> <<"A", "B">>], [separator |-> 2],
                              [cells |-> <<"C", "D">>]>>

\* the cells of Scenario B given last cell first, both converters have returned
C16_Witness ==
    /\ converted = {"html", "markdown"}
    /\ grid = <<Cell(1, 1, "D"), Cell(1, 0, "C"), Cell(0, 1, "B"), Cell(0, 0, "A")>>
    /\ Len(table_html) = 2
    /\ Len(table_md) = 3

\* no two cells of the grid cover the same position
NoOverlap ==
    \A j, k \in 1 .. Len(grid) :
        j # k =>
            \/ grid[j].end_row_offset_idx <= grid[k].start_row_offset_idx
            \/ grid[k].end_row_offset_idx <= grid[j].start_row_offset_idx
            \/ grid[j].end_col_offset_idx <= grid[k].start_col_offset_idx
            \/ grid[k].end_col_offset_idx <= grid[j].start_col_offset_idx

\* the lightweight table shows text t at position (r, c)
ShowsAt(r, c, t) ==
    /\ r \in RowIndexes(grid)
    /\ c + 1 <= Len(DataLines[Rank(r)].cells)
    /\ DataLines[Rank(r)].cells[c + 1] = t

\* C17: the lightweight-markup serializer flattens table spans by repeating a
\* cell's text in every grid position the cell covers: for a cell spanning rows
\* [r0, r1) and columns [c0, c1), each rendered position (r, c) in that range shows
\* the cell's text.
C17_SpansRepeated ==
    ("markdown" \in converted /\ NoOverlap) =>
        \A j \in 1 .. Len(grid) :
            \A r \in grid[j].start_row_offset_idx .. (grid[j].end_row_offset_idx - 1) :
                \A c \in grid[j].start_col_offset_idx .. (grid[j].end_col_offset_idx - 1) :
                    ShowsAt(r, c, grid[j].text)

-----------------------------------------------------------------------------
(* Further properties of the aggregator *)

\* the row/column grid of a list of cells: the rows by increasing row index, each
\* row by increasing column index, entry (r, c) the text of the cell that starts at
\* (r, c) and the empty string where there is none
GridOf(cells) ==
    LET row_set == {cells[j].start_row_offset_idx : j \in 1 .. Len(cells)}
        n_cols == 1 + MaxOf({cells[j].start_col_offset_idx : j \in 1 .. Len(cells)})
        RowAt(n) == CHOOSE r \in row_set : Cardinality({x \in row_set : x < r}) = n - 1
        At(r, c) == {j \in 1 .. Len(cells) :
                        /\ cells[j].start_row_offset_idx = r
                        /\ cells[j].start_col_offset_idx = c}
    IN  [n \in 1 .. Cardinality(row_set) |->
            [c \in 1 .. n_cols |->
                IF At(RowAt(n), c - 1) = {} THEN ""
                ELSE cells[CHOOSE j \in At(RowAt(n), c - 1) : TRUE].text]]

\* the tables of the stream that have a grid, among the items walked so far
TablesWalked ==
    {i \in Structural(apos - 1) :
        /\ "data" \in DOMAIN doc_items[i]
        /\ doc_items[i].data.table_cells # <<>>
        /\ ListsHolding(i) = {"tables"}}

\* C18: for every item classified as table that has a grid, the aggregator's
\* table_content is a list of rows ordered by row index, each row ordered by
\* column index, where entry (r, c) is the text of the cell at (r, c) and the empty
\* string when the grid has no cell there.
C18_TableContentIsGrid ==
    apc \in {"walk", "done"} =>
        \A i \in TablesWalked :
            \A k \in 1 .. Len(metadata.tables) :
                metadata.tables[k].text = TextOf(i) =>
                    /\ "table_content" \in DOMAIN metadata.tables[k]
                    /\ metadata.tables[k].table_content
                           = GridOf(doc_items[i].data.table_cells)

\* the items walked so far whose first provenance entry carries a bounding box
Boxed == {i \in Structural(apos - 1) : ProvHasBox(doc_items[i].prov)}

\* the step walks an item that has a bounding box
WalksBoxedItem ==
    /\ apc = "walk"
    /\ apos <= Len(doc_items)
    /\ ~IsInstance(doc_items[apos], "int")
    /\ ProvHasBox(doc_items[apos].prov)

\* the box is registered under a new id whose count is the number of boxes
\* registered before, and the entries registered before are kept
RegistersUnderNewId ==
    LET before == metadata.bounding_boxes
        after == metadata'.bounding_boxes
    IN  /\ DOMAIN before \subseteq DOMAIN after
        /\ \A id \in DOMAIN before : after[id] = before[id]
        /\ \E id \in DOMAIN after \ DOMAIN before :
               /\ DOMAIN after = DOMAIN before \cup {id}
               /\ id[3] = Cardinality(DOMAIN before)
               /\ id[2] = doc_items[apos].prov[1].page_no
               /\ after[id] = doc_items[apos].prov[1].bbox

\* the size of bounding_boxes is the number of items with a bounding box
OneBoxPerBoxedItem ==
    apc \in {"walk", "done"} => Cardinality(DOMAIN metadata.bounding_boxes) = Cardinality(Boxed)

\* C19: in extract_document_metadata every item that has a bounding box is
\* registered under a distinct id "{type}_{page}_{n}" where n is the number of
\* boxes registered before it; hence after any item stream the size of
\* bounding_boxes equals the number of items with a bounding box and no entry is
\* ever overwritten.
C19_DistinctBoxIds ==
    []OneBoxPerBoxedItem /\ [][WalksBoxedItem => RegistersUnderNewId]_vars

\* two boxed items of the same type on the same page, both registered
C19_Witness ==
    /\ apc = "done"
    /\ Len(doc_items) = 2
    /\ doc_items[1] = doc_items[2]
    /\ Boxed = {1, 2}
    /\ Cardinality(DOMAIN metadata.bounding_boxes) = 2

\* the step walks an item that has no provenance
WalksUnlocatedItem ==
    /\ apc = "walk"
    /\ apos <= Len(doc_items)
    /\ ~IsInstance(doc_items[apos], "int")
    /\ doc_items[apos].prov = <<>>

\* the descriptor the step appends to the typed list of category c
AppendedTo(c) == metadata'[ListOf(c)][Len(metadata[ListOf(c)]) + 1]

\* the item is counted under one category and appended to that category's list
\* with page None and no bbox; bounding_boxes and the per-page buckets are as before
CountedWithoutPosition ==
    \E c \in Categories :
        /\ c \in DOMAIN metadata'.elements_by_type
        /\ metadata'.elements_by_type[c]
               = (IF c \in DOMAIN metadata.elements_by_type
                  THEN metadata.elements_by_type[c] ELSE 0) + 1
        /\ \A d \in DOMAIN metadata.elements_by_type \ {c} :
               metadata'.elements_by_type[d] = metadata.elements_by_type[d]
        /\ Len(metadata'[ListOf(c)]) = Len(metadata[ListOf(c)]) + 1
        /\ AppendedTo(c).text = TextOf(apos)
        /\ AppendedTo(c).page = NoPage
        /\ "bbox" \notin DOMAIN AppendedTo(c)
        /\ metadata'.bounding_boxes = metadata.bounding_boxes
        /\ page_index' = page_index

\* C20: an item without provenance is still classified and counted in
\* elements_by_type and its typed list, gets page None and no bbox, adds nothing
\* to bounding_boxes, and appears in no per-page bucket.
C20_UnlocatedItemCounted ==
    [][WalksUnlocatedItem => CountedWithoutPosition]_vars

\* an item without provenance has been walked: it is in a typed list and in no
\* bucket, next to an item that is in a bucket
C20_Witness ==
    /\ apc = "done"
    /\ \E i \in Structural(Len(doc_items)) :
          /\ doc_items[i].prov = <<>>
          /\ ListsHolding(i) # {}
          /\ BucketPlaces(i) = {}
    /\ \E i \in Structural(Len(doc_items)) : BucketPlaces(i) # {}

-----------------------------------------------------------------------------
(* Aggregation runs interleaved: every call of extract_document_metadata has *)
(* its own locals (metadata, page_index, item_count); self.mode is only read. *)

\* the runs that are interleaved
RunIds == {1, 2}

\* the item shapes of the documents given to interleaved runs
RunShapes ==
    { Placeholder,
      Item("TableItem", "table", <<ProvItem(1)>>),
      Item("PictureItem", "picture", <<ProvItem(2)>>),
      Item("TextItem", "text", <<>>) }

\* the documents given to interleaved runs
RunDocuments ==
    {[pages |-> Pages("PageItem"), items |-> its] :
        its \in UNION {[1 .. k -> RunShapes] : k \in 0 .. MaxItems}}

ParInit ==
    /\ docs \in [RunIds -> RunDocuments]
    /\ runs = [r \in RunIds |->
                  [metadata |-> <<>>, page_index |-> <<>>, item_count |-> 0,
                   pos |-> 0, pc |-> "init"]]
    /\ ChunkIdle
    /\ AggIdle
    /\ SerIdle
    /\ TabIdle
    /\ RechunkIdle
    /\ TimeIdle
    /\ StructIdle
    /\ ProcIdle
    /\ HybridIdle

\* run r builds its empty metadata record and its per-page buckets
RunStart(r) ==
    /\ runs[r].pc = "init"
    /\ runs' = [runs EXCEPT ![r] =
                   [metadata |-> EmptyMetadata(docs[r].pages),
                    page_index |-> EmptyBuckets(docs[r].pages),
                    item_count |-> 0,
                    pos |-> 1,
                    pc |-> "walk"]]
    /\ UNCHANGED docs
    /\ UNCHANGED notPar

\* run r executes one iteration of its item loop
RunWalk(r) ==
    /\ runs[r].pc = "walk"
    /\ runs[r].pos <= Len(docs[r].items)
    /\ LET item == docs[r].items[runs[r].pos]
           md == runs[r].metadata
       IN  runs' = [runs EXCEPT
                      ![r].item_count = @ + 1,
                      ![r].pos = @ + 1,
                      ![r].metadata =
                          IF IsInstance(item, "int") THEN md
                          ELSE WalkedMetadata(md, item, runs[r].pos),
                      ![r].page_index =
                          IF IsInstance(item, "int") THEN @
                          ELSE WalkedBuckets(@, md, item, runs[r].pos)]
    /\ UNCHANGED docs
    /\ UNCHANGED notPar

\* run r leaves its item loop and returns its record
RunFinish(r) ==
    /\ runs[r].pc = "walk"
    /\ runs[r].pos > Len(docs[r].items)
    /\ runs' = [runs EXCEPT
                   ![r].metadata = ReturnedMetadata(runs[r].metadata, runs[r].page_index,
                                                    runs[r].item_count, ExportRaises),
                   ![r].pc = "done"]
    /\ UNCHANGED docs
    /\ UNCHANGED notPar

ParNext == \E r \in RunIds : RunStart(r) \/ RunWalk(r) \/ RunFinish(r)

SpecPar == ParInit /\ [][ParNext]_vars

-----------------------------------------------------------------------------
(* Properties of interleaved aggregation runs *)

\* the ids under which a run alone registers the boxes of a document: the type,
\* the page and the number of boxed items before it in the same document
AloneBoxIds(doc) ==
    LET boxed == {i \in 1 .. Len(doc.items) :
                     ~IsInstance(doc.items[i], "int") /\ ProvHasBox(doc.items[i].prov)}
    IN  {<<Classify(doc.items[i], doc.items[i].label),
           doc.items[i].prov[1].page_no,
           Cardinality({j \in boxed : j < i})>> : i \in boxed}

\* the elements a run alone counts for a document, per category
AloneCount(doc, c) ==
    Cardinality({i \in 1 .. Len(doc.items) :
                    /\ ~IsInstance(doc.items[i], "int")
                    /\ Classify(doc.items[i], doc.items[i].label) = c})

\* the texts a run alone puts in the bucket of page pn, in order
AloneBucketTexts(doc, pn) ==
    Flatten([i \in 1 .. Len(doc.items) |->
                IF /\ ~IsInstance(doc.items[i], "int")
                   /\ ProvPage(doc.items[i].prov) = pn
                THEN <<TextOf(i)>> ELSE <<>>])

\* the record run r returned is the record of a run alone on its document
SameAsAlone(r) ==
    LET md == runs[r].metadata
        doc == docs[r]
    IN  /\ DOMAIN md.bounding_boxes = AloneBoxIds(doc)
        /\ \A c \in Categories :
               (IF c \in DOMAIN md.elements_by_type THEN md.elements_by_type[c] ELSE 0)
                   = AloneCount(doc, c)
        /\ md.summary.raw_item_count = Len(doc.items)
        /\ Len(md.document_structure) = Len(doc.pages)
        /\ \A j \in 1 .. Len(md.document_structure) :
               [k \in 1 .. Len(md.document_structure[j].elements) |->
                   md.document_structure[j].elements[k].text]
                   = AloneBucketTexts(doc, md.document_structure[j].page_number)

\* C21: aggregation runs over different documents may be interleaved step by
\* step in any order and each run returns the same metadata record as when run
\* alone: no state (element counts, bounding-box id counter, page buckets) is
\* shared between runs and the input document is never modified.
C21_RunsIndependent ==
    /\ [](\A r \in DOMAIN runs : runs[r].pc = "done" => SameAsAlone(r))
    /\ [][docs' = docs]_vars

\* both runs have returned, each after registering boxes while the other was
\* in its loop
C21_Witness ==
    /\ runs # <<>>
    /\ \A r \in RunIds :
          /\ runs[r].pc = "done"
          /\ Cardinality(DOMAIN runs[r].metadata.bounding_boxes) = 2
    /\ docs[1] # docs[2]

-----------------------------------------------------------------------------
(* create_chunks called a second time on the same formatter object with the *)
(* same markup text and the same chunk_size.                                 *)

\* a variant of FreshChunks that starts from the chunk list of the call before
KeptChunks == chunks

\* "chunks = []" at the start of the second call
FreshChunks == <<>>

RechunkInit ==
    /\ formatter \in Formatters
    /\ content \in StringsUpTo(MaxLen - 1)
    /\ chunk_size \in ChunkSizes
    /\ parts = <<>>
    /\ idx = 0
    /\ chunks = <<>>
    /\ current_chunk = <<>>
    /\ current_length = 0
    /\ words = <<>>
    /\ widx = 0
    /\ temp_chunk = <<>>
    /\ temp_length = 0
    /\ pc = "start"
    /\ calls = 1
    /\ first_chunks = <<>>
    /\ AggIdle
    /\ SerIdle
    /\ TabIdle
    /\ ParIdle
    /\ TimeIdle
    /\ StructIdle
    /\ ProcIdle
    /\ HybridIdle

\* the first call has returned; the caller keeps its result and calls create_chunks
\* again with the same arguments: the accumulators of the new call are empty
CallAgain ==
    /\ pc = "done"
    /\ calls = 1
    /\ first_chunks' = chunks
    /\ calls' = 2
    /\ parts' = <<>>
    /\ idx' = 0
    /\ chunks' = FreshChunks
    /\ current_chunk' = <<>>
    /\ current_length' = 0
    /\ words' = <<>>
    /\ widx' = 0
    /\ temp_chunk' = <<>>
    /\ temp_length' = 0
    /\ pc' = "start"
    /\ UNCHANGED <<formatter, content, chunk_size>>
    /\ UNCHANGED notRechunk

RechunkNext == ChunkNext \/ CallAgain

SpecRechunk == RechunkInit /\ [][RechunkNext]_vars

-----------------------------------------------------------------------------
(* Further properties of the chunker *)

\* the word loop of an oversized element has ended with a last word group
EndsWordLoop ==
    /\ pc = "word"
    /\ widx > Len(words)
    /\ temp_chunk # <<>>

\* the last word group is not emitted: it becomes the first entry of the buffer
RemainderBuffered ==
    /\ chunks' = chunks
    /\ current_chunk' = <<Join(temp_chunk, WordSep)>>

\* a chunk is emitted outside the word loop
EmitsOutsideWordLoop == pc = "part" /\ Len(chunks') > Len(chunks)

\* the chunk emitted is the element-group chunk of the whole buffer
EmitsWholeBuffer ==
    /\ current_chunk # <<>>
    /\ chunks' = Append(chunks, GroupChunk(formatter, current_chunk))

\* C24: when an element longer than chunk_size is word-split, its last word group
\* is not emitted as a partial chunk: it becomes the first entry of the running
\* buffer and is emitted in the same element-group chunk as the following
\* elements that still fit, or alone at the next flush.
C24_RemainderMerged ==
    /\ [][EndsWordLoop => RemainderBuffered]_vars
    /\ [][EmitsOutsideWordLoop => EmitsWholeBuffer]_vars

\* a partial chunk followed by an element-group chunk of two entries: the last
\* word group and the element after it
C24_Witness ==
    /\ pc = "done"
    /\ \E n \in 1 .. (Len(chunks) - 1) :
          /\ "is_partial" \in DOMAIN chunks[n]
          /\ "element_count" \in DOMAIN chunks[n + 1]
          /\ chunks[n + 1].element_count = 2

\* the words of the chunks, read in order
ChunkWords == Flatten([n \in 1 .. Len(chunks) |-> SplitWords(chunks[n].content)])

\* C27: for every markup text and chunk_size >= 1, the sequence of
\* whitespace-delimited words obtained by reading the chunks in order equals the
\* sequence of words of the markup text: no word is dropped, duplicated or
\* reordered by buffering, flushing, word-splitting or remainder merging.
C27_WordsPreserved ==
    (pc = "done" /\ chunk_size >= 1) => ChunkWords = SplitWords(content)

\* a text of three words of different lengths, word-split and buffered
C27_Witness ==
    /\ pc = "done"
    /\ chunk_size >= 1
    /\ Len(SplitWords(content)) >= 3
    /\ \E n \in 1 .. Len(chunks) : "is_partial" \in DOMAIN chunks[n]
    /\ \E n \in 1 .. Len(chunks) :
          "element_count" \in DOMAIN chunks[n] /\ chunks[n].element_count >= 2

\* word-splitting of an oversized element starts
StartsWordLoop == pc = "part" /\ pc' = "word"

\* whatever was buffered is emitted as one element-group chunk, and the buffer is
\* empty when the word loop starts
BufferFlushedFirst ==
    /\ current_chunk' = <<>>
    /\ IF current_chunk # <<>>
       THEN chunks' = Append(chunks, GroupChunk(formatter, current_chunk))
       ELSE chunks' = chunks

\* C28: in create_chunks the running buffer is always empty when word-splitting
\* of an oversized element starts: any elements buffered before an element longer
\* than chunk_size are flushed as an element-group chunk before the first partial
\* chunk of that element is emitted, so no partial chunk precedes content that
\* comes earlier in the markup.
C28_BufferEmptyAtWordSplit ==
    /\ [](pc = "word" => current_chunk = <<>>)
    /\ [][StartsWordLoop => BufferFlushedFirst]_vars

\* an element-group chunk followed by a partial chunk
C28_Witness ==
    /\ pc = "done"
    /\ \E n \in 1 .. (Len(chunks) - 1) :
          /\ "element_count" \in DOMAIN chunks[n]
          /\ "is_partial" \in DOMAIN chunks[n + 1]

-----------------------------------------------------------------------------
(* The typed lists and the counts per category *)

\* elements_by_type.get(c, 0)
CountOf(c) ==
    IF c \in DOMAIN metadata.elements_by_type THEN metadata.elements_by_type[c] ELSE 0

\* C29: after extract_document_metadata on any item stream, the typed lists
\* partition the counted elements: elements_by_type[c] equals the length of the
\* typed list of category c for each of table, picture, heading, text, and
\* table_count + image_count + heading_count + text_block_count == total_elements
\* (no counted element has a category outside these four).
C29_TypedListsPartition ==
    apc = "done" =>
        /\ \A c \in Categories : CountOf(c) = Len(metadata[ListOf(c)])
        /\ DOMAIN metadata.elements_by_type \subseteq Categories
        /\ metadata.summary.table_count + metadata.summary.image_count
               + metadata.summary.heading_count + metadata.summary.text_block_count
             = metadata.summary.total_elements

\* a stream with a skipped placeholder and an item of an unrecognized class
C29_Witness ==
    /\ apc = "done"
    /\ metadata.summary.total_elements >= 1
    /\ metadata.summary.raw_item_count > metadata.summary.total_elements
    /\ \E i \in 1 .. Len(doc_items) :
          /\ ~IsInstance(doc_items[i], "int")
          /\ \A k \in {"TableItem", "PictureItem", "TextItem", "ListItem"} :
                 ~IsInstance(doc_items[i], k)

-----------------------------------------------------------------------------
(* Two concurrent create_enhanced_rag_document calls on one converter *)

\* the two calls
Callers == {1, 2}

\* the durations a conversion may take, in whole time units
Durations == 1 .. 3

\* a call that has not started
NotStarted == [pc |-> "call", own_time |-> 0, processing_time |-> 0]

\* __init__ has run: _last_processing_time = 0.0; both calls are about to start
TimeInit ==
    /\ last_processing_time = 0
    /\ enh = [t \in Callers |-> NotStarted]
    /\ ChunkIdle
    /\ AggIdle
    /\ SerIdle
    /\ TabIdle
    /\ ParIdle
    /\ RechunkIdle
    /\ StructIdle
    /\ ProcIdle
    /\ HybridIdle

\* convert_document: the conversion returns after d time units and the duration is
\* stored on the instance; the result may be falsy, and then the call returns None
ConvertDocument(t) ==
    /\ enh[t].pc = "call"
    /\ \E d \in Durations, truthy \in BOOLEAN :
          /\ last_processing_time' = d
          /\ enh' = [enh EXCEPT ![t] = [pc |-> IF truthy THEN "converted" ELSE "none",
                                        own_time |-> d,
                                        processing_time |-> 0]]
    /\ UNCHANGED notTime

\* self.converter.convert raises: nothing is stored and the call ends
ConvertRaises(t) ==
    /\ enh[t].pc = "call"
    /\ enh' = [enh EXCEPT ![t].pc = "raised"]
    /\ UNCHANGED last_processing_time
    /\ UNCHANGED notTime

\* export_to_markdown and extract_document_metadata, which may raise
ExportAndExtract(t) ==
    /\ enh[t].pc = "converted"
    /\ \E ok \in BOOLEAN :
          enh' = [enh EXCEPT ![t].pc = IF ok THEN "extracted" ELSE "raised"]
    /\ UNCHANGED last_processing_time
    /\ UNCHANGED notTime

\* the metadata dict is built, reading the shared field, and the document returned
BuildDocument(t) ==
    /\ enh[t].pc = "extracted"
    /\ enh' = [enh EXCEPT ![t].pc = "returned",
                          ![t].processing_time = last_processing_time]
    /\ UNCHANGED last_processing_time
    /\ UNCHANGED notTime

TimeNext ==
    \E t \in Callers :
        \/ ConvertDocument(t)
        \/ ConvertRaises(t)
        \/ ExportAndExtract(t)
        \/ BuildDocument(t)

SpecTime == TimeInit /\ [][TimeNext]_vars

\* C30: when one OptimizedDoclingConverter instance serves two concurrent
\* create_enhanced_rag_document calls, the processing_time stored in each returned
\* document's metadata is the duration of that call's own conversion, never the
\* duration written by the other call into the shared _last_processing_time field.
C30_OwnProcessingTime ==
    \A t \in DOMAIN enh :
        enh[t].pc = "returned" => enh[t].processing_time = enh[t].own_time

-----------------------------------------------------------------------------
(* The page structure: get_document_structure of both serializers *)

\* the item shapes of the documents whose structure is asked
StructShapes ==
    { Placeholder,
      GroupMarker("list", 1),
      StreamItem("TextItem", "paragraph", 1, <<ProvItem(1)>>, ""),
      StreamItem("TextItem", "title", 1, <<ProvItem(2), ProvItem(1)>>, ""),
      StreamItem("TableItem", "table", 1, <<ProvItem(1), ProvItem(2)>>, ""),
      StreamItem("SectionHeaderItem", "section_header", 2, <<>>, ""),
      StreamItem("ListItem", "list_item", 2, <<ProvItem(2)>>, ""),
      StreamItem("PictureItem", "picture", 1, <<ProvInt(1)>>, "") }

\* the item streams of at most n items
StructStreams(n) == UNION {[1 .. k -> StructShapes] : k \in 0 .. n}

\* _get_html_tag_for_item
HtmlTagForItem(item) ==
    IF IsInstance(item, "TextItem") THEN
        IF item.label = "title" THEN "h1"
        ELSE IF item.label = "section_header" THEN "h2"
        ELSE IF item.label = "paragraph" THEN "p"
        ELSE IF item.label = "code" THEN "code"
        ELSE "div"
    ELSE IF IsInstance(item, "TableItem") THEN "table"
    ELSE IF IsInstance(item, "PictureItem") THEN "img"
    ELSE IF IsInstance(item, "ListItem") THEN "li"
    ELSE "div"

\* _get_markdown_element_for_item
MarkdownElementForItem(item) ==
    IF IsInstance(item, "TextItem") THEN
        IF item.label = "title" THEN "heading_1"
        ELSE IF item.label = "section_header" THEN "heading_2"
        ELSE IF item.label = "paragraph" THEN "paragraph"
        ELSE IF item.label = "code" THEN "code_block"
        ELSE "text"
    ELSE IF IsInstance(item, "TableItem") THEN "table"
    ELSE IF IsInstance(item, "PictureItem") THEN "image"
    ELSE IF IsInstance(item, "ListItem") THEN "list_item"
    ELSE "unknown"

\* the outcomes of the loop over item.prov other than an entry number
NoEntry == 0
EntryRaises == 0 - 1

RECURSIVE FirstEntryOn(_, _, _)
\* "for prov in item.prov: if prov.page_no - 1 == page_idx: ...; break": the number
\* of the first entry on the page, NoEntry, or EntryRaises when an entry that has
\* no page_no attribute is reached first
FirstEntryOn(prov_list, page_idx, j) ==
    IF j > Len(prov_list) THEN NoEntry
    ELSE IF prov_list[j].kind # "ProvenanceItem" THEN EntryRaises
    ELSE IF prov_list[j].page_no - 1 = page_idx THEN j
    ELSE FirstEntryOn(prov_list, page_idx, j + 1)

\* the entry of item i the page loop stops at
EntryOf(items, i, page_idx) ==
    IF HasProv(items[i]) THEN FirstEntryOn(items[i].prov, page_idx, 1) ELSE NoEntry

\* element_info of item i for the provenance entry prov
ElementInfo(fmt, item, i, prov) ==
    [type |-> item.label,
     level |-> item.level,
     bbox |-> <<prov.bbox.l, prov.bbox.t, prov.bbox.r, prov.bbox.b>>,
     tag |-> IF fmt = "html" THEN HtmlTagForItem(item) ELSE MarkdownElementForItem(item),
     text |-> TextOf(i)]

RECURSIVE ElementsFrom(_, _, _, _)
\* page_info['elements'] after the item loop, from item i on
ElementsFrom(fmt, items, page_idx, i) ==
    IF i > Len(items) THEN <<>>
    ELSE LET j == EntryOf(items, i, page_idx)
         IN  (IF j = NoEntry THEN <<>>
              ELSE <<ElementInfo(fmt, items[i], i, items[i].prov[j])>>)
             \o ElementsFrom(fmt, items, page_idx, i + 1)

\* whether the item loop of a page raises
ItemLoopRaises(items, page_idx) ==
    \E i \in 1 .. Len(items) : EntryOf(items, i, page_idx) = EntryRaises

\* the structure dict is created; the page loop is about to start
StructInit ==
    /\ str_format \in {"html", "markdown"}
    /\ str_pages \in {Pages(kind) : kind \in PageKinds}
    /\ str_items \in StructStreams(MaxItems)
    /\ structure = [format |-> str_format, pages |-> <<>>, elements |-> <<>>]
    /\ str_page = 0
    /\ strpc = "page"
    /\ ChunkIdle
    /\ AggIdle
    /\ SerIdle
    /\ TabIdle
    /\ ParIdle
    /\ RechunkIdle
    /\ TimeIdle
    /\ ProcIdle
    /\ HybridIdle

\* one turn of "for page_idx, page in enumerate(document.pages)"
StructPage ==
    /\ strpc = "page"
    /\ str_page < Len(str_pages)
    /\ LET page == str_pages[str_page + 1]
           elements == ElementsFrom(str_format, str_items, str_page, 1)
           page_info == [page_index |-> str_page, size |-> page.size, elements |-> elements]
       IN  IF page.kind # "PageItem" \/ ItemLoopRaises(str_items, str_page)
           THEN /\ strpc' = "raised"
                /\ UNCHANGED <<structure, str_page>>
           ELSE /\ structure' = [structure EXCEPT !.pages = Append(@, page_info),
                                                   !.elements = @ \o elements]
                /\ str_page' = str_page + 1
                /\ UNCHANGED strpc
    /\ UNCHANGED <<str_format, str_pages, str_items>>
    /\ UNCHANGED notStruct

\* "return structure"
StructReturn ==
    /\ strpc = "page"
    /\ str_page = Len(str_pages)
    /\ strpc' = "done"
    /\ UNCHANGED <<str_format, str_pages, str_items, structure, str_page>>
    /\ UNCHANGED notStruct

StructNext == StructPage \/ StructReturn

SpecStruct == StructInit /\ [][StructNext]_vars

\* the pages (numbered from 1) under which item i is listed
ListedPages(i) ==
    {j \in 1 .. Len(structure.pages) :
        \E k \in 1 .. Len(structure.pages[j].elements) :
            structure.pages[j].elements[k].text = TextOf(i)}

\* C25: in get_document_structure of both serializers, an item with provenance is
\* listed under exactly one page, the page of its first provenance entry, also
\* when the item has provenance entries on several pages.
C25_FirstProvPageOnly ==
    strpc = "done" =>
        \A i \in 1 .. Len(str_items) :
            HasProv(str_items[i]) => ListedPages(i) = {str_items[i].prov[1].page_no}

\* what the page loop does: an item is listed under every page on which it has a
\* provenance entry, once per page
C25_ListedOnEveryProvPage ==
    strpc = "done" =>
        \A i \in 1 .. Len(str_items) :
            HasProv(str_items[i]) =>
                /\ ListedPages(i) =
                       {str_items[i].prov[j].page_no : j \in 1 .. Len(str_items[i].prov)}
                /\ \A p \in ListedPages(i) :
                       Cardinality({k \in 1 .. Len(structure.pages[p].elements) :
                                      structure.pages[p].elements[k].text = TextOf(i)}) = 1

-----------------------------------------------------------------------------
(* EnhancedDocumentProcessor.create_rag_document_from_file *)

\* SUPPORTED_FORMATS, for the extensions of the model
SupportedFormats ==
    [e \in {".pdf", ".txt", ".html"} |->
        CASE e = ".pdf" -> "application/pdf"
          [] e = ".txt" -> "text/plain"
          [] e = ".html" -> "text/html"]

\* os.path.splitext(file_path)[1].lower() of the files of the model
Extensions == DOMAIN SupportedFormats \cup {".xyz", ""}

\* what _extract_text_from_file gives: the UTF-8 text, the latin-1 text, the
\* "[Binary file ...]" note (which needs the file size) or the "[Error reading file ...]" note
ReadOutcomes == {"utf-8", "latin-1", "binary note", "error note"}

\* the value None
NoDocument == [value |-> "None"]

\* a variant of OutputMime that answers text/html for both formats
OutputMimeHtml(fmt) == "text/html"

\* "text/html" if self.output_format == 'html' else "text/plain"
OutputMime(fmt) == IF fmt = "html" THEN "text/html" ELSE "text/plain"

\* document_id, or os.path.basename(file_path) when None was given
DocumentId(id, file) == IF id = "" THEN "file" ELSE id

\* the RAGDocument of the Docling path
DoclingDocument(fmt, id, file) ==
    [value |-> "RAGDocument",
     document_id |-> DocumentId(id, file),
     content |-> fmt,
     mime_type |-> OutputMime(fmt),
     metadata |-> [file_type |-> file.ext,
                   original_mime_type |-> SupportedFormats[file.ext],
                   processing_method |-> "docling",
                   output_format |-> fmt]]

\* the RAGDocument of the except branch
FallbackDocument(id, file, read, error) ==
    [value |-> "RAGDocument",
     document_id |-> DocumentId(id, file),
     content |-> read,
     mime_type |-> "text/plain",
     metadata |-> [file_type |-> file.ext,
                   original_mime_type |->
                       IF file.ext \in DOMAIN SupportedFormats
                       THEN SupportedFormats[file.ext] ELSE "text/plain",
                   processing_method |-> "fallback",
                   error |-> error]]

ProcInit ==
    /\ proc_format \in {"html", "markdown"}
    /\ proc_file \in [exists : BOOLEAN, ext : Extensions]
    /\ proc_id \in {"", "id"}
    /\ proc_errors = <<>>
    /\ proc_result = <<>>
    /\ procpc = "call"
    /\ ChunkIdle
    /\ AggIdle
    /\ SerIdle
    /\ TabIdle
    /\ ParIdle
    /\ RechunkIdle
    /\ TimeIdle
    /\ StructIdle
    /\ HybridIdle

\* the two early returns: file not found, unsupported file type
CheckFile ==
    /\ procpc = "call"
    /\ IF ~proc_file.exists \/ proc_file.ext \notin DOMAIN SupportedFormats
       THEN /\ proc_result' = NoDocument
            /\ procpc' = "returned"
       ELSE /\ procpc' = "convert"
            /\ UNCHANGED proc_result
    /\ UNCHANGED <<proc_format, proc_file, proc_id, proc_errors>>
    /\ UNCHANGED notProc

\* self.docling_converter.convert_document, which returns or raises
Convert ==
    /\ procpc = "convert"
    /\ \E ok \in BOOLEAN :
          IF ok THEN /\ procpc' = "format"
                     /\ UNCHANGED proc_errors
          ELSE /\ procpc' = "fallback"
               /\ proc_errors' = Append(proc_errors, "convert")
    /\ UNCHANGED <<proc_format, proc_file, proc_id, proc_result>>
    /\ UNCHANGED notProc

\* formatter.format(conversion_result), which returns or raises
Format ==
    /\ procpc = "format"
    /\ \E ok \in BOOLEAN :
          IF ok THEN /\ procpc' = "build"
                     /\ UNCHANGED proc_errors
          ELSE /\ procpc' = "fallback"
               /\ proc_errors' = Append(proc_errors, "format")
    /\ UNCHANGED <<proc_format, proc_file, proc_id, proc_result>>
    /\ UNCHANGED notProc

\* the metadata dict (os.path.getsize, len(document.pages), two passes over
\* iterate_items) and the RAGDocument: built and returned, or one of them raises
BuildRagDocument ==
    /\ procpc = "build"
    /\ \E ok \in BOOLEAN :
          IF ok THEN /\ proc_result' = DoclingDocument(proc_format, proc_id, proc_file)
                     /\ procpc' = "returned"
                     /\ UNCHANGED proc_errors
          ELSE /\ procpc' = "fallback"
               /\ proc_errors' = Append(proc_errors, "metadata")
               /\ UNCHANGED proc_result
    /\ UNCHANGED <<proc_format, proc_file, proc_id>>
    /\ UNCHANGED notProc

\* the inner except branch: _extract_text_from_file and the fallback RAGDocument;
\* os.path.getsize is called there and, when it raises, the outer except returns None
Fallback ==
    /\ procpc = "fallback"
    /\ \E read \in ReadOutcomes, getsize_ok \in BOOLEAN :
          IF getsize_ok
          THEN /\ proc_result' = FallbackDocument(proc_id, proc_file, read, proc_errors[1])
               /\ UNCHANGED proc_errors
          ELSE /\ proc_result' = NoDocument
               /\ proc_errors' = Append(proc_errors, "fallback")
    /\ procpc' = "returned"
    /\ UNCHANGED <<proc_format, proc_file, proc_id>>
    /\ UNCHANGED notProc

ProcNext == CheckFile \/ Convert \/ Format \/ BuildRagDocument \/ Fallback

SpecProc == ProcInit /\ [][ProcNext]_vars

\* the file exists and its extension is supported
Processable == proc_file.exists /\ proc_file.ext \in DOMAIN SupportedFormats

\* the result is a text/plain document marked fallback, with an error field
IsFallbackResult ==
    /\ proc_result.value = "RAGDocument"
    /\ proc_result.mime_type = "text/plain"
    /\ proc_result.metadata.processing_method = "fallback"
    /\ "error" \in DOMAIN proc_result.metadata

\* the result is a document marked docling, with the mime type of the output format
IsDoclingResult ==
    /\ proc_result.value = "RAGDocument"
    /\ proc_result.metadata.processing_method = "docling"
    /\ proc_result.mime_type = IF proc_format = "html" THEN "text/html" ELSE "text/plain"

\* C23 as stated: create_rag_document_from_file never raises: it returns None when
\* the file does not exist or its extension is unsupported; when the file is
\* supported and Docling conversion or formatting raises, it returns a text/plain
\* document with processing_method "fallback" and an error field; otherwise it
\* returns a document with processing_method "docling".
C23_ThreeOutcomes ==
    procpc = "returned" =>
        IF ~Processable THEN proc_result = NoDocument
        ELSE IF proc_errors # <<>> /\ proc_errors[1] \in {"convert", "format"}
        THEN IsFallbackResult
        ELSE IsDoclingResult

\* C23, amended: the call always returns; None when the file does not exist or its
\* extension is unsupported; the docling document when conversion, formatting and
\* the building of the document all succeed; when one of them raises, the
\* text/plain fallback document with that error, or None when the fallback branch
\* raises itself.
C23_OutcomesWithFailingFallback ==
    /\ procpc \in {"call", "convert", "format", "build", "fallback", "returned"}
    /\ procpc = "returned" =>
          IF ~Processable THEN proc_result = NoDocument
          ELSE CASE Len(proc_errors) = 0 -> IsDoclingResult
                 [] Len(proc_errors) = 1 ->
                        /\ proc_errors[1] \in {"convert", "format", "metadata"}
                        /\ IsFallbackResult
                        /\ proc_result.metadata.error = proc_errors[1]
                 [] OTHER ->
                        /\ proc_errors[2] = "fallback"
                        /\ proc_result = NoDocument

\* a formatting failure answered by the fallback document
C23_Witness ==
    /\ procpc = "returned"
    /\ Processable
    /\ proc_errors = <<"format">>
    /\ IsFallbackResult

-----------------------------------------------------------------------------
(* HybridDocumentProcessor.process_document with an explicit mode *)

\* the modes __init__ tries to create a Docling converter for
DoclingModes == {"fastest", "fast", "balanced", "quality"}

\* the explicit modes of process_document
ExplicitModes == DoclingModes \cup {"text_only"}

\* what FastPDFProcessor.create_rag_document and the tagging of its result may do:
\* a document, None (the extraction reported an error), an exception in the
\* extraction, or a document whose metadata cannot be written to
FastOutcomes == {"document", "none", "raises", "untaggable"}

\* what the Docling path may do: a document, or an exception on the way
DoclingOutcomes == {"document", "raises"}

\* a variant of FallbackAllowed that forgets the mode
FallbackAlways(fast, m) == fast

\* "if self.fast_processor and mode != 'text_only'"
FallbackAllowed(fast, m) == fast /\ m # "text_only"

\* the fast result, tagged with the mode
FastDocument(m) ==
    [value |-> "RAGDocument",
     metadata |-> [processing_method |-> "fast", auto_selected_mode |-> m]]

\* the Docling result
HybridDoclingDocument(m) ==
    [value |-> "RAGDocument",
     metadata |-> [processing_method |-> "docling", processing_mode |-> m]]

\* the fast result of the except branch
FallbackResult(e) ==
    [value |-> "RAGDocument",
     metadata |-> [processing_method |-> "fast",
                   fallback_mode |-> "text_only",
                   original_mode_error |-> e]]

\* __init__ has run, with whatever processors could be created; the call starts
HybridInit ==
    /\ fast_processor \in BOOLEAN
    /\ docling_processors \in {DoclingModes, DoclingModes \ {"fastest"}, {}}
    /\ requested \in ExplicitModes
    /\ mode = requested
    /\ attempts = <<>>
    /\ hy_error = ""
    /\ hy_result = <<>>
    /\ hypc = "call"
    /\ ChunkIdle
    /\ AggIdle
    /\ SerIdle
    /\ TabIdle
    /\ ParIdle
    /\ RechunkIdle
    /\ TimeIdle
    /\ StructIdle
    /\ ProcIdle

\* "if mode == 'text_only' or mode == 'fastest'": the fast extraction, when there
\* is a fast processor; without a result the mode becomes "fastest"
TryFast ==
    /\ hypc = "call"
    /\ IF mode \in {"text_only", "fastest"}
       THEN IF fast_processor
            THEN \E o \in FastOutcomes :
                    /\ attempts' = Append(attempts, [by |-> "fast", did |-> o])
                    /\ CASE o = "document" ->
                                /\ hy_result' = FastDocument(mode)
                                /\ hypc' = "returned"
                                /\ UNCHANGED <<mode, hy_error>>
                          [] o = "none" ->
                                /\ mode' = "fastest"
                                /\ hypc' = "docling"
                                /\ UNCHANGED <<hy_result, hy_error>>
                          [] OTHER ->
                                /\ hy_error' = "fast"
                                /\ hypc' = "except"
                                /\ UNCHANGED <<mode, hy_result>>
            ELSE /\ mode' = "fastest"
                 /\ hypc' = "docling"
                 /\ UNCHANGED <<attempts, hy_result, hy_error>>
       ELSE /\ hypc' = "docling"
            /\ UNCHANGED <<mode, attempts, hy_result, hy_error>>
    /\ UNCHANGED <<fast_processor, docling_processors, requested>>
    /\ UNCHANGED notHybrid

\* "if mode in self.docling_processors": conversion, export and document; when the
\* mode has no converter the call falls through to "return None"
TryDocling ==
    /\ hypc = "docling"
    /\ IF mode \in docling_processors
       THEN \E o \in DoclingOutcomes :
               /\ attempts' = Append(attempts, [by |-> "docling", mode |-> mode, did |-> o])
               /\ IF o = "document"
                  THEN /\ hy_result' = HybridDoclingDocument(mode)
                       /\ hypc' = "returned"
                       /\ UNCHANGED hy_error
                  ELSE /\ hy_error' = "docling"
                       /\ hypc' = "except"
                       /\ UNCHANGED hy_result
       ELSE /\ hy_result' = NoDocument
            /\ hypc' = "returned"
            /\ UNCHANGED <<attempts, hy_error>>
    /\ UNCHANGED <<fast_processor, docling_processors, requested, mode>>
    /\ UNCHANGED notHybrid

\* the except branch: the text-only fallback when allowed, then "return None"
TextOnlyFallback ==
    /\ hypc = "except"
    /\ IF FallbackAllowed(fast_processor, mode)
       THEN \E o \in FastOutcomes :
               /\ attempts' = Append(attempts, [by |-> "fallback", did |-> o])
               /\ hy_result' = IF o = "document" THEN FallbackResult(hy_error)
                                ELSE NoDocument
       ELSE /\ hy_result' = NoDocument
            /\ UNCHANGED attempts
    /\ hypc' = "returned"
    /\ UNCHANGED <<fast_processor, docling_processors, requested, mode, hy_error>>
    /\ UNCHANGED notHybrid

HybridNext == TryFast \/ TryDocling \/ TextOnlyFallback

SpecHybrid == HybridInit /\ [][HybridNext]_vars

\* some processor tried before the fallback raised
SelectedPathRaised ==
    \E n \in 1 .. Len(attempts) :
        attempts[n].by # "fallback" /\ attempts[n].did \in {"raises", "untaggable"}

\* the result is what the selected path produced: the fast document for text_only
\* and fastest, or the document of the Docling converter of the mode
IsSelectedPathResult ==
    /\ hy_result.value = "RAGDocument"
    /\ ~SelectedPathRaised
    /\ \/ /\ requested \in {"text_only", "fastest"}
          /\ hy_result = FastDocument(requested)
          /\ attempts = <<[by |-> "fast", did |-> "document"]>>
       \/ /\ hy_result = HybridDoclingDocument(mode)
          /\ mode = IF requested = "text_only" THEN "fastest" ELSE requested
          /\ attempts[Len(attempts)] = [by |-> "docling", mode |-> mode, did |-> "document"]

\* the result is the fast text-only document tagged as a fallback
IsFallbackTagged ==
    /\ hy_result.value = "RAGDocument"
    /\ "fallback_mode" \in DOMAIN hy_result.metadata
    /\ hy_result.metadata.fallback_mode = "text_only"
    /\ "original_mode_error" \in DOMAIN hy_result.metadata
    /\ SelectedPathRaised
    /\ fast_processor
    /\ mode # "text_only"

\* a text_only or fastest request whose fast extraction gave no result goes to the
\* Docling "fastest" converter next, when there is one, and to nothing else
RetriedWithFastest ==
    (/\ attempts # <<>>
     /\ attempts[1] = [by |-> "fast", did |-> "none"])
        => /\ mode = "fastest"
           /\ hypc = "returned" =>
                 IF "fastest" \in docling_processors
                 THEN /\ Len(attempts) >= 2
                      /\ attempts[2].by = "docling"
                      /\ attempts[2].mode = "fastest"
                 ELSE Len(attempts) = 1 /\ hy_result = NoDocument

\* C26: process_document with an explicit (non-auto) mode never raises and ends in
\* one of three outcomes: the result of the selected path; or, when the selected
\* path raised, a fast processor exists and the mode is not text_only, the fast
\* text-only result tagged fallback_mode = "text_only" with original_mode_error; or
\* None. A request for text_only or fastest whose fast extraction yields no result
\* is retried with the Docling "fastest" converter before any fallback.
C26_ThreeOutcomes ==
    /\ hypc \in {"call", "docling", "except", "returned"}
    /\ hypc = "returned" =>
          \/ IsSelectedPathResult
          \/ IsFallbackTagged
          \/ hy_result = NoDocument
    /\ RetriedWithFastest

\* a text_only request: no fast result, the Docling fastest converter raises, and
\* the fallback gives the tagged text-only document
C26_Witness ==
    /\ hypc = "returned"
    /\ requested = "text_only"
    /\ Len(attempts) = 3
    /\ attempts[1] = [by |-> "fast", did |-> "none"]
    /\ attempts[2] = [by |-> "docling", mode |-> "fastest", did |-> "raises"]
    /\ attempts[3] = [by |-> "fallback", did |-> "document"]
    /\ IsFallbackTagged

=============================================================================
